---- MODULE Spec2Model ----
(***************************************************************************)
(* A model of the turn-based roguelike engine built up over the ROT.js     *)
(* tutorial chapters (parts 0-13).  The model follows the final state of   *)
(* each function: where a later chapter rewrites a function, the later     *)
(* version is the one modelled.                                            *)
(*                                                                         *)
(* One key event is one step: GameScreen.update runs the input handler,    *)
(* the player's action, every enemy turn and the field-of-view refresh     *)
(* synchronously.  Randomness (Math.random) and the choice among equally   *)
(* short paths made by the path-finding library are nondeterministic.      *)
(***************************************************************************)
EXTENDS Integers, Sequences, FiniteSets, TLC

(***************************************************************************)
(* Bounds of the model.  The map is a scaled-down GameScreen.MAP_WIDTH x   *)
(* MAP_HEIGHT grid; MaxEvents caps the number of key events a game screen  *)
(* handles (the sessions with the largest key sets end one event earlier). *)
(***************************************************************************)
MapWidth == 8
MapHeight == 5
MaxEvents == 6

\* The arguments of generateDungeon in the second specification, GenSpec.
mapWidth == 9
mapHeight == 9
maxRooms == 3
minSize == 3
maxSize == 5
\* The largest map side and room size, and the most passes of the room loop,
\* of the calls of generateDungeon with any arguments.
MaxSide == 4
MaxPasses == 2
\* The arguments of the call of generateDungeon that places entities.
PopWidth == 4
PopHeight == 8
PopRooms == 2
PopMinSize == 3
PopMaxSize == 6

Pos == (0 .. MapWidth - 1) \X (0 .. MapHeight - 1)

Abs(n) == IF n < 0 THEN -n ELSE n
Max(a, b) == IF a >= b THEN a ELSE b
Min(a, b) == IF a <= b THEN a ELSE b

\* The index range of a sequence.
Indices(s) == 1 .. Len(s)

\* The sequence s without its i-th element (Array.splice(i, 1)).
RemoveAt(s, i) == [k \in 1 .. Len(s) - 1 |-> IF k < i THEN s[k] ELSE s[k + 1]]

(***************************************************************************)
(* Entities.  One record shape serves Entity, Actor and Item; the fields a *)
(* class does not have hold a neutral value.  `ai` is the chain of AI      *)
(* objects reachable from actor.ai through previousAi: the empty sequence  *)
(* is null, the head is actor.ai.  A name is the spawn name with `remains` *)
(* copies of "Remains of " in front.  `parent` tells whether the entity's  *)
(* parent is the map or an inventory.                                      *)
(***************************************************************************)
PlayerId == 1

RenderOrder == [Corpse |-> 0, Item |-> 1, Actor |-> 2]

HostileEnemy == <<[type |-> "hostile", path |-> <<>>, turnsRemaining |-> 0]>>

ConfusedEnemy(previousAi, turns) ==
    <<[type |-> "confused", path |-> <<>>, turnsRemaining |-> turns]>> \o previousAi

Actor(id, x, y, char, name, ai, maxHp, baseDefense, basePower, levelUpBase, xpGiven) ==
    [id |-> id, x |-> x, y |-> y, char |-> char, name |-> name, remains |-> 0,
     blocksMovement |-> TRUE, renderOrder |-> RenderOrder.Actor, isActor |-> TRUE,
     ai |-> ai, hp |-> maxHp, maxHp |-> maxHp,
     baseDefense |-> baseDefense, basePower |-> basePower,
     levelUpBase |-> levelUpBase, xpGiven |-> xpGiven,
     currentLevel |-> 1, currentXp |-> 0, levelUpFactor |-> 200,
     consumable |-> "none", equippable |-> "none", powerBonus |-> 0, defenseBonus |-> 0,
     parent |-> "map"]

Item(id, x, y, char, name, consumable, equippable, powerBonus, defenseBonus) ==
    [id |-> id, x |-> x, y |-> y, char |-> char, name |-> name, remains |-> 0,
     blocksMovement |-> FALSE, renderOrder |-> RenderOrder.Item, isActor |-> FALSE,
     ai |-> <<>>, hp |-> 0, maxHp |-> 0,
     baseDefense |-> 0, basePower |-> 0,
     levelUpBase |-> 0, xpGiven |-> 0,
     currentLevel |-> 1, currentXp |-> 0, levelUpFactor |-> 200,
     consumable |-> consumable, equippable |-> equippable,
     powerBonus |-> powerBonus, defenseBonus |-> defenseBonus,
     parent |-> "map"]

spawnPlayer(x, y) == Actor(PlayerId, x, y, "@", "Player", <<>>, 30, 1, 2, 200, 0)
spawnOrc(id, x, y) == Actor(id, x, y, "o", "Orc", HostileEnemy, 10, 0, 3, 0, 35)
spawnTroll(id, x, y) == Actor(id, x, y, "T", "Troll", HostileEnemy, 16, 1, 4, 0, 100)

spawnHealthPotion(id, x, y) == Item(id, x, y, "!", "Health Potion", "healing", "none", 0, 0)
spawnLightningScroll(id, x, y) == Item(id, x, y, "~", "Lightning Scroll", "lightning", "none", 0, 0)
spawnConfusionScroll(id, x, y) == Item(id, x, y, "~", "Confusion Scroll", "confusion", "none", 0, 0)
spawnFireballScroll(id, x, y) == Item(id, x, y, "~", "Fireball Scroll", "fireball", "none", 0, 0)
spawnDagger(id, x, y) == Item(id, x, y, "/", "Dagger", "none", "weapon", 2, 0)
spawnSword(id, x, y) == Item(id, x, y, "/", "Sword", "none", "weapon", 4, 0)
spawnLeatherArmor(id, x, y) == Item(id, x, y, "[", "Leather Armor", "none", "armor", 0, 1)
spawnChainMail(id, x, y) == Item(id, x, y, "[", "Chain Mail", "none", "armor", 0, 3)

\* spawnMap: the spawn function for a spawn name.
spawnMap(name, id, x, y) ==
    CASE name = "Orc" -> spawnOrc(id, x, y)
      [] name = "Troll" -> spawnTroll(id, x, y)
      [] name = "Health Potion" -> spawnHealthPotion(id, x, y)
      [] name = "Lightning Scroll" -> spawnLightningScroll(id, x, y)
      [] name = "Confusion Scroll" -> spawnConfusionScroll(id, x, y)
      [] name = "Fireball Scroll" -> spawnFireballScroll(id, x, y)
      [] name = "Dagger" -> spawnDagger(id, x, y)
      [] name = "Sword" -> spawnSword(id, x, y)
      [] name = "Leather Armor" -> spawnLeatherArmor(id, x, y)
      [] name = "Chain Mail" -> spawnChainMail(id, x, y)

\* Consumable parameters fixed by the spawn functions.
HealingAmount == 4
LightningDamage == 20
LightningMaxRange == 5
ConfusionTurns == 10
FireballDamage == 12
FireballRadius == 3
InventoryCapacity == 26
FovRadius == 8

(***************************************************************************)
(* The world.  A world record `w` bundles everything an action can touch:  *)
(*   entities   gameMap.entities, in map order                             *)
(*   walls      positions whose tile is a wall (not walkable, opaque)      *)
(*   stairsTile position of the stairs-down tile in the grid               *)
(*   downstairs gameMap.downstairsLocation                                 *)
(*   visible, seen   positions whose tile has the flag set                 *)
(*   inv        player.inventory.items                                     *)
(*   slots      player.equipment.slots (item id, 0 for null)               *)
(*   floor      GameScreen.currentFloor                                    *)
(*   handler    GameScreen.inputHandler                                    *)
(*   nextId     the identity given to the next object created              *)
(*   log        window.messageLog: its length and the text of its last     *)
(*              message (all addMessage reads)                             *)
(*   ev         the addMessage calls made during the current key event     *)
(*   acts       the steps of the current key event, in order: the player's *)
(*              action, each enemy's turn, the field-of-view refresh       *)
(***************************************************************************)
isInBounds(x, y) == 0 <= x /\ x < MapWidth /\ 0 <= y /\ y < MapHeight

Walkable(w, x, y) == <<x, y>> \notin w.walls
\* GameMap.lightPasses: the tile is in bounds and transparent
lightPasses(w, x, y) == IF isInBounds(x, y) THEN <<x, y>> \notin w.walls ELSE FALSE

\* Index in w.entities of the entity with identity id (0 if absent).
IndexOf(s, id) ==
    IF \E i \in Indices(s) : s[i].id = id
    THEN CHOOSE i \in Indices(s) : s[i].id = id
    ELSE 0

Player(w) == w.entities[IndexOf(w.entities, PlayerId)]

\* Actor.isAlive
isAlive(e) == e.ai # <<>> \/ e.id = PlayerId

\* GameMap.actors: the indices, in map order, of the living actors.
ActorIndices(w) == {i \in Indices(w.entities) : w.entities[i].isActor /\ isAlive(w.entities[i])}

\* GameMap.items
ItemIndices(w) == {i \in Indices(w.entities) : ~w.entities[i].isActor}

\* Array.find over a set of indices: the first index satisfying the test.
First(S) == CHOOSE i \in S : \A j \in S : i <= j

\* GameMap.getBlockingEntityAtLocation (index, 0 for undefined)
getBlockingEntityAtLocation(w, x, y) ==
    LET S == {i \in Indices(w.entities) :
                 w.entities[i].blocksMovement /\ w.entities[i].x = x /\ w.entities[i].y = y}
    IN IF S = {} THEN 0 ELSE First(S)

\* GameMap.getActorAtLocation (index, 0 for undefined)
getActorAtLocation(w, x, y) ==
    LET S == {i \in ActorIndices(w) : w.entities[i].x = x /\ w.entities[i].y = y}
    IN IF S = {} THEN 0 ELSE First(S)

\* GameMap.removeEntity
removeEntity(w, id) ==
    LET i == IndexOf(w.entities, id)
    IN IF i = 0 THEN w ELSE [w EXCEPT !.entities = RemoveAt(@, i)]

(***************************************************************************)
(* Field of view.  GameMap.updateFov clears every visible flag and marks   *)
(* the tiles the shadowcasting sweep reports at full visibility as visible *)
(* and seen.  The sweep itself is the FOV routine of the ROT.js library;   *)
(* it is modelled as a line-of-sight test: a tile within the radius is lit *)
(* when light passes through every tile lying on the segment between the   *)
(* origin and the tile.                                                    *)
(***************************************************************************)
Lit(w, o) ==
    LET OnSegment(t, p) ==
            /\ p # o /\ p # t
            /\ Min(o[1], t[1]) <= p[1] /\ p[1] <= Max(o[1], t[1])
            /\ Min(o[2], t[2]) <= p[2] /\ p[2] <= Max(o[2], t[2])
            /\ 2 * Abs((t[1] - o[1]) * (p[2] - o[2]) - (t[2] - o[2]) * (p[1] - o[1]))
                  <= Max(Abs(t[1] - o[1]), Abs(t[2] - o[2]))
    IN {t \in Pos :
           /\ Max(Abs(t[1] - o[1]), Abs(t[2] - o[2])) <= FovRadius
           /\ \A p \in Pos : OnSegment(t, p) => lightPasses(w, p[1], p[2])}

\* A recomputation that clears seen along with visible.
updateFov_ForgetsSeen(w) ==
    LET lit == Lit(w, <<Player(w).x, Player(w).y>>)
    IN [w EXCEPT !.visible = lit, !.seen = lit]

\* GameMap.updateFov
updateFov(w) ==
    LET lit == Lit(w, <<Player(w).x, Player(w).y>>)
    IN [w EXCEPT !.visible = lit, !.seen = @ \cup lit]

(***************************************************************************)
(* Message log.  A message text is a record: the fixed wording and the     *)
(* names and number interpolated into it, so that two texts are equal      *)
(* exactly when the strings the code builds are equal.                     *)
(***************************************************************************)
\* Entity.name as text: the spawn name behind `remains` "Remains of ".
NameOf(e) == <<e.name, e.remains>>

NoName == <<"", 0>>

Msg(text, who, whom, n) == [text |-> text, who |-> who, whom |-> whom, n |-> n]

\* The messages array after addMessage(text) with stack = true, as its
\* length and its last message (plainText and count).
Stack(log, text) ==
    IF log.len > 0 /\ log.last = text
    THEN [log EXCEPT !.count = @ + 1]
    ELSE [len |-> log.len + 1, last |-> text, count |-> 1]

\* MessageLog.addMessage
addMessage(w, text) == [w EXCEPT !.log = Stack(@, text), !.ev = Append(@, text)]

(***************************************************************************)
(* Results.  An operation that can throw returns the world it leaves       *)
(* behind together with what it threw: nothing, an ImpossibleException     *)
(* (with its message) or another error (a TypeError).                      *)
(***************************************************************************)
Ok(w) == [w |-> w, exc |-> "none", msg |-> Msg("", NoName, NoName, 0)]
Impossible(w, text) == [w |-> w, exc |-> "impossible", msg |-> Msg(text, NoName, NoName, 0)]
Error(w) == [w |-> w, exc |-> "error", msg |-> Msg("", NoName, NoName, 0)]

Ent(w, id) == w.entities[IndexOf(w.entities, id)]

SetEntity(w, id, e) == [w EXCEPT !.entities[IndexOf(w.entities, id)] = e]

(***************************************************************************)
(* Level component (of the player: die() awards xp to the player only).    *)
(***************************************************************************)
experienceToNextLevel(e) == e.levelUpBase + e.currentLevel * e.levelUpFactor

\* A level that never asks for a level-up.
requiresLevelUp_Never(e) == FALSE

\* Level.requiresLevelUp
requiresLevelUp(e) == e.currentXp > experienceToNextLevel(e)

\* Level.addXp on window.engine.player.level
addXp(w, xp) ==
    IF xp = 0 \/ Player(w).levelUpBase = 0
    THEN w
    ELSE LET w1 == SetEntity(w, PlayerId, [Player(w) EXCEPT !.currentXp = @ + xp])
             w2 == addMessage(w1, Msg("You gain experience points.", NoName, NoName, xp))
         IN IF requiresLevelUp(Player(w2))
            THEN addMessage(w2, Msg("You advance to level", NoName, NoName,
                                    Player(w2).currentLevel + 1))
            ELSE w2

\* A level-up that spends all the experience.
increaseLevel_SpendsAll(e) == [e EXCEPT !.currentXp = 0, !.currentLevel = @ + 1]

\* Level.increaseLevel
increaseLevel(e) ==
    [e EXCEPT !.currentXp = @ - experienceToNextLevel(e), !.currentLevel = @ + 1]

(***************************************************************************)
(* Fighter component.                                                      *)
(***************************************************************************)
\* A death that leaves the AI of the dead in place.
die_KeepsAi(w, id) ==
    LET e == Ent(w, id)
        deathMessage == IF id = PlayerId
                        THEN Msg("You died!", NoName, NoName, 0)
                        ELSE Msg("is dead!", NameOf(e), NoName, 0)
        w1 == SetEntity(w, id, [e EXCEPT !.char = "%",
                                         !.blocksMovement = FALSE,
                                         !.remains = @ + 1,
                                         !.renderOrder = RenderOrder.Corpse])
        w2 == addMessage(w1, deathMessage)
    IN addXp(w2, e.xpGiven)

\* Fighter.die
die(w, id) ==
    LET e == Ent(w, id)
        deathMessage == IF id = PlayerId
                        THEN Msg("You died!", NoName, NoName, 0)
                        ELSE Msg("is dead!", NameOf(e), NoName, 0)
        w1 == SetEntity(w, id, [e EXCEPT !.char = "%",
                                         !.blocksMovement = FALSE,
                                         !.ai = <<>>,
                                         !.remains = @ + 1,
                                         !.renderOrder = RenderOrder.Corpse])
        w2 == addMessage(w1, deathMessage)
    IN addXp(w2, e.xpGiven)

\* A clamp with the upper limit only.
ClampHp_NoFloor(value, maxHp) == Min(value, maxHp)

\* The clamp of the hp setter.
ClampHp(value, maxHp) == Max(0, Min(value, maxHp))

\* Fighter.hp setter
setHp(w, id, value) ==
    LET e == Ent(w, id)
        w1 == SetEntity(w, id, [e EXCEPT !.hp = ClampHp(value, e.maxHp)])
    IN IF Ent(w1, id).hp = 0 /\ isAlive(e) THEN die(w1, id) ELSE w1

\* Fighter.takeDamage
takeDamage(w, id, amount) == setHp(w, id, Ent(w, id).hp - amount)

\* A heal that reports the amount asked for.
healAmount_Requested(e, amount) == IF e.hp = e.maxHp THEN 0 ELSE amount

\* Fighter.heal: the amount recovered and the world after
healAmount(e, amount) ==
    IF e.hp = e.maxHp THEN 0 ELSE Min(e.maxHp, e.hp + amount) - e.hp

heal(w, id, amount) ==
    IF Ent(w, id).hp = Ent(w, id).maxHp
    THEN w
    ELSE setHp(w, id, Min(Ent(w, id).maxHp, Ent(w, id).hp + amount))

(***************************************************************************)
(* Equipment component (of the player; every other actor's is empty).      *)
(***************************************************************************)
\* The item object with identity id, wherever it is.
ItemById(w, id) ==
    IF IndexOf(w.inv, id) # 0 THEN w.inv[IndexOf(w.inv, id)] ELSE Ent(w, id)

SlotBonus(w, slot, field) ==
    IF w.slots[slot] = 0 THEN 0
    ELSE IF ItemById(w, w.slots[slot]).equippable = "none" THEN 0
    ELSE ItemById(w, w.slots[slot])[field]

\* Equipment.defenseBonus / Equipment.powerBonus
equipmentDefenseBonus(w) == SlotBonus(w, "weapon", "defenseBonus") + SlotBonus(w, "armor", "defenseBonus")
equipmentPowerBonus(w) == SlotBonus(w, "weapon", "powerBonus") + SlotBonus(w, "armor", "powerBonus")

\* Fighter.defense / Fighter.power
defense(w, e) == e.baseDefense + (IF e.id = PlayerId THEN equipmentDefenseBonus(w) ELSE 0)
power(w, e) == e.basePower + (IF e.id = PlayerId THEN equipmentPowerBonus(w) ELSE 0)

\* Equipment.itemIsEquipped
itemIsEquipped(w, id) == w.slots["weapon"] = id \/ w.slots["armor"] = id

\* Equipment.unequipFromSlot
unequipFromSlot(w, slot, withMessage) ==
    LET w1 == IF withMessage /\ w.slots[slot] # 0
              THEN addMessage(w, Msg("You remove the item.",
                                     NameOf(ItemById(w, w.slots[slot])), NoName, 0))
              ELSE w
    IN [w1 EXCEPT !.slots[slot] = 0]

\* Equipment.equipToSlot
equipToSlot(w, slot, id, withMessage) ==
    LET w1 == IF w.slots[slot] # 0 THEN unequipFromSlot(w, slot, withMessage) ELSE w
        w2 == [w1 EXCEPT !.slots[slot] = id]
    IN IF withMessage
       THEN addMessage(w2, Msg("You equip the item.", NameOf(ItemById(w, id)), NoName, 0))
       ELSE w2

\* A toggle that equips the item even when it is the one in its slot.
toggleEquip_NeverUnequips(w, id, withMessage) ==
    LET slot == IF ItemById(w, id).equippable = "weapon" THEN "weapon" ELSE "armor"
    IN equipToSlot(w, slot, id, withMessage)

\* Equipment.toggleEquip
toggleEquip(w, id, withMessage) ==
    LET slot == IF ItemById(w, id).equippable = "weapon" THEN "weapon" ELSE "armor"
    IN IF w.slots[slot] = id
       THEN unequipFromSlot(w, slot, withMessage)
       ELSE equipToSlot(w, slot, id, withMessage)

(***************************************************************************)
(* Actions.  Each perform(entity, gameMap) takes the acting entity's       *)
(* identity and returns a result.                                          *)
(***************************************************************************)
\* A move that does not ask whether an entity blocks the destination.
MovementAction_ThroughEntities(w, id, dx, dy) ==
    LET e == Ent(w, id)
        destX == e.x + dx
        destY == e.y + dy
    IN IF ~isInBounds(destX, destY) THEN Impossible(w, "That way is blocked.")
       ELSE IF ~Walkable(w, destX, destY) THEN Impossible(w, "That way is blocked.")
       ELSE Ok(SetEntity(w, id, [e EXCEPT !.x = destX, !.y = destY]))

\* Entity.move after the three checks of MovementAction.perform
MovementAction(w, id, dx, dy) ==
    LET e == Ent(w, id)
        destX == e.x + dx
        destY == e.y + dy
    IN IF ~isInBounds(destX, destY) THEN Impossible(w, "That way is blocked.")
       ELSE IF ~Walkable(w, destX, destY) THEN Impossible(w, "That way is blocked.")
       ELSE IF getBlockingEntityAtLocation(w, destX, destY) # 0
            THEN Impossible(w, "That way is blocked.")
       ELSE Ok(SetEntity(w, id, [e EXCEPT !.x = destX, !.y = destY]))

\* An attack that subtracts the damage whatever its sign.
MeleeAction_SignedDamage(w, id, dx, dy) ==
    LET e == Ent(w, id)
        t == getActorAtLocation(w, e.x + dx, e.y + dy)
        target == w.entities[t]
        damage == power(w, e) - defense(w, target)
    IN IF t = 0 THEN Impossible(w, "Nothing to attack.")
       ELSE Ok(setHp(addMessage(w, Msg("attacks for hit points.",
                                       NameOf(e), NameOf(target), damage)),
                     target.id, target.hp - damage))

\* MeleeAction.perform
MeleeAction(w, id, dx, dy) ==
    LET e == Ent(w, id)
        t == getActorAtLocation(w, e.x + dx, e.y + dy)
        target == w.entities[t]
        damage == power(w, e) - defense(w, target)
    IN IF t = 0 THEN Impossible(w, "Nothing to attack.")
       ELSE IF damage > 0
            THEN Ok(setHp(addMessage(w, Msg("attacks for hit points.",
                                            NameOf(e), NameOf(target), damage)),
                          target.id, target.hp - damage))
            ELSE Ok(addMessage(w, Msg("attacks but does no damage.",
                                      NameOf(e), NameOf(target), 0)))

\* BumpAction.perform
BumpAction(w, id, dx, dy) ==
    IF getActorAtLocation(w, Ent(w, id).x + dx, Ent(w, id).y + dy) # 0
    THEN MeleeAction(w, id, dx, dy)
    ELSE MovementAction(w, id, dx, dy)

\* WaitAction.perform
WaitAction(w, id) == Ok(w)

\* A pickup that never finds the inventory full.
PickupAction_NoCapacity(w, id) ==
    LET e == Ent(w, id)
        here == {i \in ItemIndices(w) : w.entities[i].x = e.x /\ w.entities[i].y = e.y}
        item == w.entities[First(here)]
    IN IF here = {} THEN Impossible(w, "There is nothing here to pick up.")
       ELSE Ok(addMessage([removeEntity(w, item.id) EXCEPT
                               !.inv = Append(@, [item EXCEPT !.parent = "inventory"])],
                          Msg("You picked up the item!", NameOf(item), NoName, 0)))

\* PickupAction.perform
PickupAction(w, id) ==
    LET e == Ent(w, id)
        here == {i \in ItemIndices(w) : w.entities[i].x = e.x /\ w.entities[i].y = e.y}
        item == w.entities[First(here)]
    IN IF here = {} THEN Impossible(w, "There is nothing here to pick up.")
       ELSE IF Len(w.inv) >= InventoryCapacity THEN Impossible(w, "Your inventory is full.")
       ELSE Ok(addMessage([removeEntity(w, item.id) EXCEPT
                               !.inv = Append(@, [item EXCEPT !.parent = "inventory"])],
                          Msg("You picked up the item!", NameOf(item), NoName, 0)))

\* A drop that places the item on the map and leaves it in the item list.
drop_KeepsInInventory(w, id, itemId) ==
    LET i == IndexOf(w.inv, itemId)
        item == w.inv[i]
        e == Ent(w, id)
    IN IF i = 0 THEN w
       ELSE addMessage([w EXCEPT !.entities = Append(@, [item EXCEPT !.x = e.x, !.y = e.y,
                                                                     !.parent = "map"])],
                       Msg("You dropped the item.", NameOf(item), NoName, 0))

\* Inventory.drop (with Entity.place)
drop(w, id, itemId) ==
    LET i == IndexOf(w.inv, itemId)
        item == w.inv[i]
        e == Ent(w, id)
    IN IF i = 0 THEN w
       ELSE addMessage([w EXCEPT !.inv = RemoveAt(@, i),
                                 !.entities = Append(@, [item EXCEPT !.x = e.x, !.y = e.y,
                                                                     !.parent = "map"])],
                       Msg("You dropped the item.", NameOf(item), NoName, 0))

\* A drop that leaves the equipment slots alone.
DropItem_KeepsEquipped(w, id, itemId) == Ok(drop(w, id, itemId))

\* DropItem.perform
DropItem(w, id, itemId) ==
    LET w1 == drop(w, id, itemId)
    IN IF itemIsEquipped(w1, itemId) THEN Ok(toggleEquip(w1, itemId, TRUE)) ELSE Ok(w1)

\* EquipAction.perform
EquipAction(w, id, itemId) == Ok(toggleEquip(w, itemId, TRUE))

\* Consumable.consume
consume(w, itemId) ==
    LET i == IndexOf(w.inv, itemId)
    IN IF i = 0 THEN w ELSE [w EXCEPT !.inv = RemoveAt(@, i)]

\* HealingConsumable.activate
HealingActivate(w, id, itemId) ==
    LET amountRecovered == healAmount(Ent(w, id), HealingAmount)
        w1 == heal(w, id, HealingAmount)
    IN IF amountRecovered > 0
       THEN Ok(consume(addMessage(w1, Msg("You consume the item, and recover HP!",
                                          NameOf(ItemById(w, itemId)), NoName, amountRecovered)),
                       itemId))
       ELSE Impossible(w1, "Your health is already full.")

\* Entity.distance, squared
Distance2(e, x, y) == (x - e.x) * (x - e.x) + (y - e.y) * (y - e.y)

\* A target search that does not ask whether the actor's tile is visible.
LightningTarget_Unseen(w, id) ==
    LET e == Ent(w, id)
        C == {i \in ActorIndices(w) :
                 /\ w.entities[i].id # id
                 /\ Distance2(e, w.entities[i].x, w.entities[i].y)
                       < (LightningMaxRange + 1) * (LightningMaxRange + 1)}
        D(i) == Distance2(e, w.entities[i].x, w.entities[i].y)
    IN IF C = {} THEN 0
       ELSE First({i \in C : \A j \in C : D(i) <= D(j)})

\* The target the loop of LightningConsumable.activate settles on (index, 0
\* for null): the first actor, in map order, at the least distance among the
\* visible actors other than the user that lie closer than maxRange + 1.
LightningTarget(w, id) ==
    LET e == Ent(w, id)
        C == {i \in ActorIndices(w) :
                 /\ w.entities[i].id # id
                 /\ <<w.entities[i].x, w.entities[i].y>> \in w.visible
                 /\ Distance2(e, w.entities[i].x, w.entities[i].y)
                       < (LightningMaxRange + 1) * (LightningMaxRange + 1)}
        D(i) == Distance2(e, w.entities[i].x, w.entities[i].y)
    IN IF C = {} THEN 0
       ELSE First({i \in C : \A j \in C : D(i) <= D(j)})

\* LightningConsumable.activate
LightningActivate(w, id, itemId) ==
    LET t == LightningTarget(w, id)
        target == w.entities[t]
    IN IF t # 0
       THEN Ok(consume(takeDamage(addMessage(w, Msg("A lighting bolt strikes with a loud thunder!",
                                                    NameOf(target), NoName, LightningDamage)),
                                  target.id, LightningDamage),
                       itemId))
       ELSE Impossible(addMessage(w, Msg("No enemy is close enough to strike.", NoName, NoName, 0)),
                       "No enemy is close enough to strike.")

\* ConfusionConsumable.activate
ConfusionActivate(w, id, itemId, x, y) ==
    LET t == getActorAtLocation(w, x, y)
        target == w.entities[t]
    IN IF t = 0 THEN Impossible(w, "You must select an enemy to target.")
       ELSE IF <<x, y>> \notin w.visible
            THEN Impossible(w, "You cannot target an area you cannot see.")
       ELSE IF target.id = id THEN Impossible(w, "You cannot confuse yourself!")
       ELSE Ok(consume(SetEntity(addMessage(w, Msg("The eyes of the target look vacant.",
                                                   NameOf(target), NoName, 0)),
                                 target.id,
                                 [target EXCEPT !.ai = ConfusedEnemy(@, ConfusionTurns)]),
                       itemId))

\* A set of indices as the sequence of the entities' identities, in map order.
RECURSIVE IdsInOrder(_, _)
IdsInOrder(w, S) ==
    IF S = {} THEN <<>>
    ELSE <<w.entities[First(S)].id>> \o IdsInOrder(w, S \ {First(S)})

\* The array the gameMap.actors getter returns, as identities.
actors(w) == IdsInOrder(w, ActorIndices(w))

\* The loop of FireballDamageConsumable.activate over the remaining actors.
RECURSIVE FireballLoop(_, _, _, _, _, _)
FireballLoop(w, ids, x, y, itemId, targetsHit) ==
    IF ids = <<>> THEN Ok(w)
    ELSE LET actor == Ent(w, Head(ids))
             hit == Distance2(actor, x, y) <= FireballRadius * FireballRadius
             w1 == IF hit
                   THEN takeDamage(addMessage(w, Msg("The actor is engulfed in a fiery explosion!",
                                                     NameOf(actor), NoName, FireballDamage)),
                                   actor.id, FireballDamage)
                   ELSE w
         IN IF ~(targetsHit \/ hit)
            THEN Impossible(w1, "There are no targets in the radius.")
            ELSE FireballLoop(consume(w1, itemId), Tail(ids), x, y, itemId, targetsHit \/ hit)

\* An activate that consumes the scroll before it looks for targets.
FireballActivate_ConsumeFirst(w, id, itemId, x, y) ==
    IF <<x, y>> \notin w.visible
    THEN Impossible(w, "You cannot target an area that you cannot see.")
    ELSE FireballLoop(consume(w, itemId), actors(w), x, y, itemId, FALSE)

\* FireballDamageConsumable.activate
FireballActivate(w, id, itemId, x, y) ==
    IF <<x, y>> \notin w.visible
    THEN Impossible(w, "You cannot target an area that you cannot see.")
    ELSE FireballLoop(w, actors(w), x, y, itemId, FALSE)

\* ItemAction.perform: this.item?.consumable?.activate(this, entity, gameMap)
ItemAction(w, id, itemId, x, y) ==
    LET kind == ItemById(w, itemId).consumable
    IN CASE kind = "healing" -> HealingActivate(w, id, itemId)
         [] kind = "lightning" -> LightningActivate(w, id, itemId)
         [] kind = "confusion" -> ConfusionActivate(w, id, itemId, x, y)
         [] kind = "fireball" -> FireballActivate(w, id, itemId, x, y)
         [] OTHER -> Ok(w)

(***************************************************************************)
(* AI.  perform returns the set of results the turn can have: one for      *)
(* every value Math.random can produce and every shortest path the path    *)
(* finder can report.                                                      *)
(***************************************************************************)
Neighbours(p) == {q \in Pos : q # p /\ Abs(q[1] - p[1]) <= 1 /\ Abs(q[2] - p[2]) <= 1}

\* The passable tiles in order of their step distance from the destination.
RECURSIVE Layers(_, _, _)
Layers(w, reached, frontier) ==
    IF frontier = {} THEN <<>>
    ELSE LET next == {q \in Pos \ reached :
                         Walkable(w, q[1], q[2]) /\ \E p \in frontier : q \in Neighbours(p)}
         IN <<frontier>> \o Layers(w, reached \cup next, next)

RECURSIVE PathsFrom(_, _, _)
PathsFrom(layers, p, k) ==
    IF k = 1 THEN {<<>>}
    ELSE UNION {{<<q>> \o r : r \in PathsFrom(layers, q, k - 1)} :
                   q \in layers[k - 1] \cap Neighbours(p)}

\* BaseAI.calculatePathTo: the values this.path can be left with, a shortest
\* path from the entity to the destination without its first cell.
calculatePathTo(w, destX, destY, e) ==
    LET layers == Layers(w, {<<destX, destY>>}, {<<destX, destY>>})
        K == {k \in Indices(layers) : <<e.x, e.y>> \in layers[k]}
    IN IF K = {} THEN {<<>>}
       ELSE PathsFrom(layers, <<e.x, e.y>>, CHOOSE k \in K : TRUE)

\* A hostile enemy that looks for a path to the player whether its tile is
\* visible or not.
HostileEnemyPerform_ChasesBlind(w, id) ==
    LET e == Ent(w, id)
        target == Player(w)
        dx == target.x - e.x
        dy == target.y - e.y
        distance == Max(Abs(dx), Abs(dy))
        isVisible == <<e.x, e.y>> \in w.visible
    IN IF isVisible /\ distance <= 1
       THEN {MeleeAction(w, id, dx, dy)}
       ELSE {IF Len(path) > 0
             THEN MovementAction(SetEntity(w, id, [e EXCEPT !.ai[1].path = Tail(path)]),
                                 id, path[1][1] - e.x, path[1][2] - e.y)
             ELSE WaitAction(SetEntity(w, id, [e EXCEPT !.ai[1].path = path]), id) :
             path \in calculatePathTo(w, target.x, target.y, e)}

\* HostileEnemy.perform
HostileEnemyPerform(w, id) ==
    LET e == Ent(w, id)
        target == Player(w)
        dx == target.x - e.x
        dy == target.y - e.y
        distance == Max(Abs(dx), Abs(dy))
        isVisible == <<e.x, e.y>> \in w.visible
    IN IF isVisible /\ distance <= 1
       THEN {MeleeAction(w, id, dx, dy)}
       ELSE {IF Len(path) > 0
             THEN MovementAction(SetEntity(w, id, [e EXCEPT !.ai[1].path = Tail(path)]),
                                 id, path[1][1] - e.x, path[1][2] - e.y)
             ELSE WaitAction(SetEntity(w, id, [e EXCEPT !.ai[1].path = path]), id) :
             path \in IF isVisible THEN calculatePathTo(w, target.x, target.y, e)
                                   ELSE {e.ai[1].path}}

directions ==
    << <<-1, -1>>, <<0, -1>>, <<1, -1>>, <<-1, 0>>, <<1, 0>>, <<-1, 1>>, <<0, 1>>, <<1, 1>> >>

\* A random number that can pass its maximum by two.
generateRandomNumber_PastMax(min, max) == min .. max + 2

\* generateRandomNumber(min, max): what floor(random * (max - min + 1) + min)
\* can be for a random in [0, 1).  With max below min the factor is zero or
\* negative and the result lies in max + 1 .. min.
generateRandomNumber(min, max) == IF max >= min THEN min .. max ELSE max + 1 .. min

\* A perform that lets the previous AI act in the turn that restores it.
ConfusedEnemyPerform_ActsOnRestore(w, id) ==
    LET e == Ent(w, id)
        w1 == SetEntity(addMessage(w, Msg("The actor is no longer confused.",
                                          NameOf(e), NoName, 0)),
                        id, [e EXCEPT !.ai = Tail(@)])
    IN IF e.ai[1].turnsRemaining <= 0
       THEN HostileEnemyPerform(w1, id)
       ELSE {IF n + 1 \in Indices(directions)
             THEN BumpAction(SetEntity(w, id, [e EXCEPT !.ai[1].turnsRemaining = @ - 1]),
                             id, directions[n + 1][1], directions[n + 1][2])
             ELSE Error(w) :
             n \in generateRandomNumber(0, Len(directions))}

\* ConfusedEnemy.perform; directions[n] of the code is directions[n + 1] here
ConfusedEnemyPerform(w, id) ==
    LET e == Ent(w, id)
    IN IF e.ai[1].turnsRemaining <= 0
       THEN {Ok(SetEntity(addMessage(w, Msg("The actor is no longer confused.",
                                            NameOf(e), NoName, 0)),
                          id, [e EXCEPT !.ai = Tail(@)]))}
       ELSE {IF n + 1 \in Indices(directions)
             THEN BumpAction(SetEntity(w, id, [e EXCEPT !.ai[1].turnsRemaining = @ - 1]),
                             id, directions[n + 1][1], directions[n + 1][2])
             ELSE Error(w) :
             n \in generateRandomNumber(0, Len(directions))}

\* ai.perform by the class of the AI object
AiPerform(w, id) ==
    IF Ent(w, id).ai[1].type = "confused"
    THEN ConfusedEnemyPerform(w, id)
    ELSE HostileEnemyPerform(w, id)

(***************************************************************************)
(* Input handlers.  A handler object is a record of its class (`state`)    *)
(* and the fields its class reads: the cursor of a SelectIndexHandler      *)
(* (mousePosition), the log cursor of a LogInputHandler and the item the   *)
(* callback of a ranged-attack handler closes over.  handleKeyboardInput   *)
(* returns the action (kind "null" for null), the world it leaves and the  *)
(* handler's nextHandler (`This` when it still is the handler itself).     *)
(***************************************************************************)
Handler(state, cursor, logCursor, item) ==
    [state |-> state, cursor |-> cursor, logCursor |-> logCursor, item |-> item]

This == Handler("this", <<0, 0>>, 0, 0)
GameInputHandler == Handler("Game", <<0, 0>>, 0, 0)
LogInputHandler(w) == Handler("Log", <<0, 0>>, w.log.len - 1, 0)
InventoryInputHandler(inputState) == Handler(inputState, <<0, 0>>, 0, 0)
LevelUpEventHandler == Handler("LevelUp", <<0, 0>>, 0, 0)
CharacterScreenInputHandler == Handler("Character", <<0, 0>>, 0, 0)
\* SelectIndexHandler constructor: the cursor starts on the player
LookHandler(w) == Handler("Look", <<Player(w).x, Player(w).y>>, 0, 0)
SingleRangedAttackHandler(w, item) ==
    Handler("SingleRanged", <<Player(w).x, Player(w).y>>, 0, item)
AreaRangedAttackHandler(w, item) ==
    Handler("AreaRanged", <<Player(w).x, Player(w).y>>, 0, item)

Act(kind, dx, dy, item, x, y) ==
    [kind |-> kind, dx |-> dx, dy |-> dy, item |-> item, x |-> x, y |-> y]

Null == Act("null", 0, 0, 0, 0, 0)

Input(action, w, next) == [action |-> action, w |-> w, next |-> next]

MOVE_KEYS ==
    [ArrowUp |-> <<0, -1>>, ArrowDown |-> <<0, 1>>, ArrowLeft |-> <<-1, 0>>,
     ArrowRight |-> <<1, 0>>, Home |-> <<-1, -1>>, End |-> <<-1, 1>>,
     PageUp |-> <<1, -1>>, PageDown |-> <<1, 1>>, b |-> <<-1, 1>>]

LOG_KEYS == [ArrowUp |-> -1, ArrowDown |-> 1]

\* event.key.charCodeAt(0) of the one-character keys
charCode ==
    [a |-> 97, b |-> 98, c |-> 99, d |-> 100, g |-> 103, i |-> 105, v |-> 118]
    @@ ("5" :> 53) @@ ("/" :> 47) @@ (">" :> 62)

\* A handler that opens the message log whether or not the player is alive.
GameHandleKeyboardInput_LogAfterDeath(w, key) ==
    IF Player(w).hp > 0
    THEN IF requiresLevelUp(Player(w)) THEN Input(Null, w, LevelUpEventHandler)
         ELSE IF key \in DOMAIN MOVE_KEYS
              THEN Input(Act("Bump", MOVE_KEYS[key][1], MOVE_KEYS[key][2], 0, 0, 0), w, This)
         ELSE IF key = "v" THEN Input(Null, w, LogInputHandler(w))
         ELSE IF key = "5" THEN Input(Act("Wait", 0, 0, 0, 0, 0), w, This)
         ELSE IF key = "g" THEN Input(Act("Pickup", 0, 0, 0, 0, 0), w, This)
         ELSE IF key = "i" THEN Input(Null, w, InventoryInputHandler("UseInventory"))
         ELSE IF key = "d" THEN Input(Null, w, InventoryInputHandler("DropInventory"))
         ELSE IF key = "c" THEN Input(Null, w, CharacterScreenInputHandler)
         ELSE IF key = "/" THEN Input(Null, w, LookHandler(w))
         ELSE IF key = ">" THEN Input(Act("TakeStairs", 0, 0, 0, 0, 0), w, This)
         ELSE IF key = "v" THEN Input(Null, w, LogInputHandler(w))
    ELSE Input(Null, w, This)
    ELSE IF key = "v" THEN Input(Null, w, LogInputHandler(w))
    ELSE Input(Null, w, This)

\* GameInputHandler.handleKeyboardInput
GameHandleKeyboardInput(w, key) ==
    IF Player(w).hp > 0
    THEN IF requiresLevelUp(Player(w)) THEN Input(Null, w, LevelUpEventHandler)
         ELSE IF key \in DOMAIN MOVE_KEYS
              THEN Input(Act("Bump", MOVE_KEYS[key][1], MOVE_KEYS[key][2], 0, 0, 0), w, This)
         ELSE IF key = "v" THEN Input(Null, w, LogInputHandler(w))
         ELSE IF key = "5" THEN Input(Act("Wait", 0, 0, 0, 0, 0), w, This)
         ELSE IF key = "g" THEN Input(Act("Pickup", 0, 0, 0, 0, 0), w, This)
         ELSE IF key = "i" THEN Input(Null, w, InventoryInputHandler("UseInventory"))
         ELSE IF key = "d" THEN Input(Null, w, InventoryInputHandler("DropInventory"))
         ELSE IF key = "c" THEN Input(Null, w, CharacterScreenInputHandler)
         ELSE IF key = "/" THEN Input(Null, w, LookHandler(w))
         ELSE IF key = ">" THEN Input(Act("TakeStairs", 0, 0, 0, 0, 0), w, This)
         ELSE Input(Null, w, This)
    ELSE Input(Null, w, This)

\* LogInputHandler.handleKeyboardInput: the LogAction closes over the scroll
\* amount (dx: -1, 1, or 0 for undefined; "Home"/"End" as the kind says)
LogHandleKeyboardInput(w, key) ==
    IF key = "Home" THEN Input(Act("LogHome", 0, 0, 0, 0, 0), w, This)
    ELSE IF key = "End" THEN Input(Act("LogEnd", 0, 0, 0, 0, 0), w, This)
    ELSE IF key \in DOMAIN LOG_KEYS
         THEN Input(Act("LogScroll", LOG_KEYS[key], 0, 0, 0, 0), w, This)
    ELSE Input(Act("LogScroll", 0, 0, 0, 0, 0), w, GameInputHandler)

\* Consumable.getAction by the class of the consumable
getAction(w, item) ==
    CASE item.consumable = "confusion" ->
             Input(Null,
                   [addMessage(w, Msg("Select a target location.", NoName, NoName, 0))
                       EXCEPT !.handler = SingleRangedAttackHandler(w, item.id)],
                   This)
      [] item.consumable = "fireball" ->
             Input(Null,
                   [addMessage(w, Msg("Select a target location.", NoName, NoName, 0))
                       EXCEPT !.handler = AreaRangedAttackHandler(w, item.id)],
                   This)
      [] OTHER -> Input(Act("Item", 0, 0, item.id, 0, 0), w, GameInputHandler)

\* InventoryInputHandler.handleKeyboardInput
InventoryHandleKeyboardInput(w, key) ==
    LET index == IF key \in DOMAIN charCode THEN charCode[key] - charCode["a"] ELSE -1
        item == w.inv[index + 1]
    IN IF key \in DOMAIN charCode /\ index >= 0 /\ index <= 26
       THEN IF index + 1 \in Indices(w.inv)
            THEN IF w.handler.state = "UseInventory"
                 THEN IF item.consumable # "none" THEN getAction(w, item)
                      ELSE IF item.equippable # "none"
                           THEN Input(Act("Equip", 0, 0, item.id, 0, 0), w, GameInputHandler)
                      ELSE Input(Null, w, GameInputHandler)
                 ELSE Input(Act("Drop", 0, 0, item.id, 0, 0), w, GameInputHandler)
            ELSE Input(Null, addMessage(w, Msg("Invalid entry.", NoName, NoName, 0)), This)
       ELSE Input(Null, w, GameInputHandler)

\* The KeyboardEvent of a key press: a key name of the form "Shift+K",
\* "Ctrl+K" or "Alt+K" is the key K pressed with that modifier key held.
KeyboardEvent(k) ==
    LET Held(key, shift, ctrl, alt) ==
            [key |-> key, shiftKey |-> shift, ctrlKey |-> ctrl, altKey |-> alt]
    IN CASE k = "Shift+ArrowRight" -> Held("ArrowRight", TRUE, FALSE, FALSE)
         [] k = "Ctrl+ArrowDown" -> Held("ArrowDown", FALSE, TRUE, FALSE)
         [] k = "Alt+ArrowLeft" -> Held("ArrowLeft", FALSE, FALSE, TRUE)
         [] OTHER -> Held(k, FALSE, FALSE, FALSE)

\* SelectIndexHandler.handleKeyboardInput with the onIndexSelected of the
\* subclass
SelectIndexHandleKeyboardInput(w, k) ==
    LET h == w.handler
        event == KeyboardEvent(k)
        key == event.key
        modifier == IF event.altKey THEN 20
                    ELSE IF event.ctrlKey THEN 10
                    ELSE IF event.shiftKey THEN 5
                    ELSE 1
        ClampCursor(x, y) == <<Max(0, Min(x, MapWidth - 1)), Max(0, Min(y, MapHeight - 1))>>
    IN IF key \in DOMAIN MOVE_KEYS
       THEN Input(Null,
                  [w EXCEPT !.handler.cursor =
                       ClampCursor(h.cursor[1] + MOVE_KEYS[key][1] * modifier,
                                   h.cursor[2] + MOVE_KEYS[key][2] * modifier)],
                  This)
       ELSE IF key = "Enter"
            THEN IF h.state = "Look" THEN Input(Null, w, GameInputHandler)
                 ELSE Input(Act("Item", 0, 0, h.item, h.cursor[1], h.cursor[2]),
                            w, GameInputHandler)
       ELSE Input(Null, w, GameInputHandler)

\* Level.increaseMaxHp / increasePower / increaseDefense
increaseMaxHp(w, amount) ==
    LET w1 == SetEntity(w, PlayerId, [Player(w) EXCEPT !.maxHp = @ + amount])
        w2 == setHp(w1, PlayerId, Player(w1).hp + amount)
        w3 == addMessage(w2, Msg("Your health improves!", NoName, NoName, 0))
    IN SetEntity(w3, PlayerId, increaseLevel(Player(w3)))

increasePower(w, amount) ==
    LET w1 == SetEntity(w, PlayerId, [Player(w) EXCEPT !.basePower = @ + amount])
        w2 == addMessage(w1, Msg("You feel stronger!", NoName, NoName, 0))
    IN SetEntity(w2, PlayerId, increaseLevel(Player(w2)))

increaseDefense(w, amount) ==
    LET w1 == SetEntity(w, PlayerId, [Player(w) EXCEPT !.baseDefense = @ + amount])
        w2 == addMessage(w1, Msg("Your movements are getting swifter!", NoName, NoName, 0))
    IN SetEntity(w2, PlayerId, increaseLevel(Player(w2)))

\* LevelUpEventHandler.handleKeyboardInput
LevelUpHandleKeyboardInput(w, key) ==
    IF key = "a" THEN Input(Null, increaseMaxHp(w, 20), GameInputHandler)
    ELSE IF key = "b" THEN Input(Null, increasePower(w, 1), GameInputHandler)
    ELSE IF key = "c" THEN Input(Null, increaseDefense(w, 1), GameInputHandler)
    ELSE Input(Null, addMessage(w, Msg("Invalid entry.", NoName, NoName, 0)), This)

\* CharacterScreenInputHandler.handleKeyboardInput
CharacterHandleKeyboardInput(w, key) == Input(Null, w, GameInputHandler)

\* inputHandler.handleKeyboardInput by the class of the handler
handleKeyboardInput(w, k) ==
    LET key == KeyboardEvent(k).key
    IN CASE w.handler.state = "Game" -> GameHandleKeyboardInput(w, key)
         [] w.handler.state = "Log" -> LogHandleKeyboardInput(w, key)
         [] w.handler.state \in {"UseInventory", "DropInventory"} ->
                InventoryHandleKeyboardInput(w, key)
         [] w.handler.state \in {"Look", "SingleRanged", "AreaRanged"} ->
                SelectIndexHandleKeyboardInput(w, k)
         [] w.handler.state = "LevelUp" -> LevelUpHandleKeyboardInput(w, key)
         [] w.handler.state = "Character" -> CharacterHandleKeyboardInput(w, key)

\* LogAction.perform: the moveLog closures of LogInputHandler
LogAction(w, kind, scrollAmount) ==
    LET last == w.log.len - 1
        c == w.handler.logCursor
    IN Ok([w EXCEPT !.handler.logCursor =
              CASE kind = "LogHome" -> 0
                [] kind = "LogEnd" -> last
                [] scrollAmount < 0 /\ c = 0 -> last
                [] scrollAmount > 0 /\ c = last -> 0
                [] OTHER -> Max(0, Min(c + scrollAmount, last))])

(***************************************************************************)
(* Dungeon generation.  generateDungeon is random; the floors it can       *)
(* return are drawn from a fixed set of small floors, each with a wall     *)
(* border as rooms and tunnels never touch the edge of the map: the player *)
(* is put on the first room's centre, the stairs on the last room's.       *)
(***************************************************************************)
Border == {p \in Pos : p[1] \in {0, MapWidth - 1} \/ p[2] \in {0, MapHeight - 1}}

\* The walls of the generated floors: all but one room around a pillar.
Walls == Border \cup (Pos \ (((1 .. 3) \X (1 .. 3)) \ {<<2, 2>>}))

Floors ==
    {[start |-> <<1, 1>>, stairs |-> <<3, 3>>,
      spawns |-> << <<"Orc", 3, 1>>, <<"Orc", 1, 3>>, <<"Lightning Scroll", 2, 1>> >>],
     [start |-> <<3, 1>>, stairs |-> <<3, 3>>,
      spawns |-> << <<"Troll", 1, 3>>, <<"Health Potion", 3, 2>> >>]}

\* The entities a list of spawns puts on the map, with fresh identities.
Spawned(spawns, nextId) ==
    [k \in Indices(spawns) |->
        spawnMap(spawns[k][1], nextId + k - 1, spawns[k][2], spawns[k][3])]

\* generateDungeon with the player moved to the start point
generateDungeon(w, f) ==
    [w EXCEPT !.entities = <<[Player(w) EXCEPT !.x = f.start[1], !.y = f.start[2]]>>
                             \o Spawned(f.spawns, w.nextId),
              !.walls = Walls,
              !.stairsTile = f.stairs,
              !.downstairs = f.stairs,
              !.visible = {},
              !.seen = {},
              !.nextId = @ + Len(f.spawns)]

\* GameScreen.generateFloor
generateFloor(w) == {generateDungeon([w EXCEPT !.floor = @ + 1], f) : f \in Floors}

\* A descent that does not ask where the actor stands.
TakeStairsAction_Anywhere(w, id) ==
    {Ok(addMessage(w1, Msg("You descend the staircase.", NoName, NoName, 0))) :
        w1 \in generateFloor(w)}

\* TakeStairsAction.perform
TakeStairsAction(w, id) ==
    IF <<Ent(w, id).x, Ent(w, id).y>> = w.downstairs
    THEN {Ok(addMessage(w1, Msg("You descend the staircase.", NoName, NoName, 0))) :
             w1 \in generateFloor(w)}
    ELSE {Impossible(w, "There are no stairs here.")}

\* action.perform(this.player, this.gameMap) by the class of the action
Perform(w, a) ==
    CASE a.kind = "Bump" -> {BumpAction(w, PlayerId, a.dx, a.dy)}
      [] a.kind = "Wait" -> {WaitAction(w, PlayerId)}
      [] a.kind = "Pickup" -> {PickupAction(w, PlayerId)}
      [] a.kind = "Item" -> {ItemAction(w, PlayerId, a.item, a.x, a.y)}
      [] a.kind = "Drop" -> {DropItem(w, PlayerId, a.item)}
      [] a.kind = "Equip" -> {EquipAction(w, PlayerId, a.item)}
      [] a.kind = "TakeStairs" -> TakeStairsAction(w, PlayerId)
      [] a.kind \in {"LogHome", "LogEnd", "LogScroll"} -> {LogAction(w, a.kind, a.dx)}

(***************************************************************************)
(* GameScreen.  The steps of a key event are recorded in `acts`: who took  *)
(* the step, whether it was alive when its turn came, whether it acted,    *)
(* what the step threw and how many messages were added during it;         *)
(* `hpBefore` is the player's hp when the key event arrived.               *)
(***************************************************************************)
Step(step, id, alive, acted, exc, msgs) ==
    [step |-> step, id |-> id, alive |-> alive, acted |-> acted, exc |-> exc, msgs |-> msgs]

Record(w, st) == [w EXCEPT !.acts = Append(@, st)]

\* A catch block that reports the enemy's failure in the message log.
EnemyCatch_Logs(r) == IF r.exc = "impossible" THEN addMessage(r.w, r.msg) ELSE r.w

\* The catch block of handleEnemyTurns: catch {}
EnemyCatch(r) == r.w

\* The iteration of handleEnemyTurns over the rest of the actors array.
RECURSIVE EnemyTurns(_, _)
EnemyTurns(w, ids) ==
    IF ids = <<>> THEN {w}
    ELSE LET id == Head(ids)
             e == Ent(w, id)
         IN IF isAlive(e)
            THEN IF e.ai = <<>>
                 THEN EnemyTurns(w, Tail(ids))
                 ELSE UNION {EnemyTurns(Record(EnemyCatch(r),
                                               Step("enemy", id, isAlive(e), TRUE, r.exc,
                                                    Len(EnemyCatch(r).ev) - Len(w.ev))),
                                        Tail(ids)) :
                                r \in AiPerform(w, id)}
            ELSE EnemyTurns(Record(w, Step("enemy", id, isAlive(e), FALSE, "none", 0)),
                            Tail(ids))

\* A forEach that runs from the last actor to the first.
TurnOrder_Reversed(w) ==
    [i \in 1 .. Len(actors(w)) |-> actors(w)[Len(actors(w)) + 1 - i]]

\* The order in which handleEnemyTurns visits gameMap.actors (forEach).
TurnOrder(w) == actors(w)

\* GameScreen.handleEnemyTurns
handleEnemyTurns(w) == EnemyTurns(w, TurnOrder(w))

\* What follows action.perform inside the try block of update.
AfterAction(w) ==
    {Record(updateFov(w1), Step("fov", 0, TRUE, TRUE, "none", 0)) : w1 \in handleEnemyTurns(w)}

\* The catch block of update.
UpdateCatch(w, r) == IF r.exc = "impossible" THEN {addMessage(w, r.msg)} ELSE {w}

\* A try/catch that runs the enemy turns before looking at what was thrown.
TryAction_EnemiesRegardless(w, r) ==
    LET w1 == Record(r.w, Step("player", PlayerId, TRUE, TRUE, r.exc, Len(r.w.ev) - Len(w.ev)))
    IN IF r.exc = "none" THEN AfterAction(w1)
       ELSE UNION {UpdateCatch(w2, r) : w2 \in handleEnemyTurns(w1)}

\* The try/catch of update around one outcome r of action.perform.
TryAction(w, r) ==
    LET w1 == Record(r.w, Step("player", PlayerId, TRUE, TRUE, r.exc, Len(r.w.ev) - Len(w.ev)))
    IN IF r.exc = "none" THEN AfterAction(w1) ELSE UpdateCatch(w1, r)

\* GameScreen.update: the worlds one key event can lead to
update(w, key) ==
    LET w0 == [w EXCEPT !.ev = <<>>, !.acts = <<>>, !.hpBefore = Player(w).hp]
        in == handleKeyboardInput(w0, key)
        after == IF in.action.kind = "null"
                 THEN {in.w}
                 ELSE UNION {TryAction(in.w, r) : r \in Perform(in.w, in.action)}
    IN {[w1 EXCEPT !.handler = IF in.next = This THEN @ ELSE in.next] : w1 \in after}

(***************************************************************************)
(* Saved games.  A save is what toObject writes: the floor, the tiles and, *)
(* for every entity, its name, position, char, fighter (maxHp, hp, defense *)
(* and power), level, AI type with confusion turns and inventory (item     *)
(* names).  The fields a spawn function fixes for good (colours, level-up  *)
(* base and factor, xp given) are left out.                                *)
(***************************************************************************)
\* The entry toObject writes for an entity that was spawned under `name`,
\* has died `remains` times and wears nothing.
Saved(name, remains, x, y, hp, currentXp, aiType, turns, inventory) ==
    LET e == IF name = "Player" THEN spawnPlayer(x, y) ELSE spawnMap(name, 0, x, y)
    IN [name |-> <<name, remains>>, x |-> x, y |-> y,
        char |-> IF remains > 0 THEN "%" ELSE e.char,
        maxHp |-> e.maxHp, hp |-> hp, defense |-> e.baseDefense, power |-> e.basePower,
        currentLevel |-> 1, currentXp |-> currentXp,
        aiType |-> aiType, confusedTurnsRemaining |-> turns, inventory |-> inventory]

\* GameScreen.toObject
toObject(w) ==
    [floor |-> w.floor, walls |-> w.walls, stairsTile |-> w.stairsTile,
     visible |-> w.visible, seen |-> w.seen,
     entities |->
        [i \in Indices(w.entities) |->
            LET e == w.entities[i]
            IN [name |-> NameOf(e), x |-> e.x, y |-> e.y, char |-> e.char,
                maxHp |-> e.maxHp, hp |-> e.hp,
                defense |-> IF e.isActor THEN defense(w, e) ELSE 0,
                power |-> IF e.isActor THEN power(w, e) ELSE 0,
                currentLevel |-> e.currentLevel, currentXp |-> e.currentXp,
                aiType |-> IF e.ai = <<>> THEN "none" ELSE e.ai[1].type,
                confusedTurnsRemaining |->
                    IF e.ai # <<>> /\ e.ai[1].type = "confused"
                    THEN e.ai[1].turnsRemaining ELSE 0,
                inventory |-> IF e.id = PlayerId
                              THEN [k \in Indices(w.inv) |-> w.inv[k].name]
                              ELSE <<>>]]]

EmptyWorld ==
    [entities |-> <<>>, walls |-> {}, stairsTile |-> <<0, 0>>, downstairs |-> <<0, 0>>,
     visible |-> {}, seen |-> {}, inv |-> <<>>, slots |-> [weapon |-> 0, armor |-> 0],
     floor |-> 0, handler |-> GameInputHandler, nextId |-> PlayerId + 1,
     log |-> [len |-> 1,
              last |-> Msg("Hello and welcome, adventurer, to yet another dungeon!",
                           NoName, NoName, 0),
              count |-> 1],
     ev |-> <<>>, acts |-> <<>>, hpBefore |-> 0]

\* The tiles lit from a position on the fixed floor plan.
LitFrom(p) == Lit([walls |-> Walls], p)

NoSave == [floor |-> 0, entities |-> <<>>, walls |-> {}, stairsTile |-> <<0, 0>>,
           visible |-> {}, seen |-> {}]

\* A saved game: the player carrying scrolls, with an orc out of sight.
MagicSave ==
    [floor |-> 2, walls |-> Walls, stairsTile |-> <<3, 3>>,
     visible |-> LitFrom(<<1, 1>>), seen |-> LitFrom(<<1, 1>>),
     entities |-> <<Saved("Player", 0, 1, 1, 30, 0, "none", 0,
                          <<"Fireball Scroll", "Lightning Scroll">>),
                    Saved("Orc", 0, 3, 2, 10, 0, "hostile", 0, <<>>)>>]

\* A roguesave entry that JSON.parse rejects.
InvalidJson == [text |-> "{"]

\* A saved floor whose room is a corridor two tiles high.
CorridorWalls == Border \cup (Pos \ ((1 .. 6) \X (1 .. 2)))

\* More saved games.  BattleSave: the player about to die between two
\* orcs.  LevelSave: the player one kill away from the next level, with an
\* orc queued behind another.  DeadSave: a game saved after the player died.
\* RangeSave: the player with two Lightning Scrolls and a Troll at the far
\* end of the corridor, at distance sqrt(26).  ConfusedSave: a confused Orc
\* on its last confused turn next to another Orc.  FullSave: the player
\* standing on a Health Potion with a full inventory.  EquipSave: the player
\* carrying unequipped equipment.  ChainSave: the player next to an Orc,
\* carrying a Chain Mail and a Health Potion.
SavedGames ==
    [BattleSave |->
         [floor |-> 1, walls |-> Walls, stairsTile |-> <<3, 3>>,
          visible |-> LitFrom(<<1, 1>>), seen |-> LitFrom(<<1, 1>>),
          entities |-> <<Saved("Player", 0, 1, 1, 2, 0, "none", 0, <<>>),
                         Saved("Orc", 0, 2, 1, 10, 0, "hostile", 0, <<>>),
                         Saved("Orc", 0, 1, 2, 10, 0, "hostile", 0, <<>>)>>],
     LevelSave |->
         [floor |-> 1, walls |-> Walls, stairsTile |-> <<3, 3>>,
          visible |-> LitFrom(<<1, 1>>), seen |-> LitFrom(<<1, 1>>),
          entities |-> <<Saved("Player", 0, 1, 1, 20, 380, "none", 0,
                               <<"Health Potion", "Lightning Scroll">>),
                         Saved("Orc", 0, 3, 1, 10, 0, "hostile", 0, <<>>),
                         Saved("Orc", 0, 2, 1, 2, 0, "hostile", 0, <<>>)>>],
     DeadSave |->
         [floor |-> 1, walls |-> Walls, stairsTile |-> <<3, 3>>,
          visible |-> LitFrom(<<3, 1>>), seen |-> LitFrom(<<3, 1>>),
          entities |-> <<Saved("Orc", 1, 3, 2, 0, 0, "none", 0, <<>>),
                         Saved("Player", 1, 3, 1, 0, 0, "none", 0, <<"Dagger">>)>>],
     RangeSave |->
         [floor |-> 1, walls |-> CorridorWalls, stairsTile |-> <<6, 1>>,
          visible |-> Lit([walls |-> CorridorWalls], <<1, 1>>),
          seen |-> Lit([walls |-> CorridorWalls], <<1, 1>>),
          entities |-> <<Saved("Player", 0, 1, 1, 30, 0, "none", 0,
                               <<"Lightning Scroll", "Lightning Scroll">>),
                         Saved("Troll", 0, 6, 2, 16, 0, "hostile", 0, <<>>)>>],
     ConfusedSave |->
         [floor |-> 1, walls |-> Walls, stairsTile |-> <<3, 1>>,
          visible |-> LitFrom(<<1, 1>>), seen |-> LitFrom(<<1, 1>>),
          entities |-> <<Saved("Player", 0, 1, 1, 30, 0, "none", 0, <<>>),
                         Saved("Orc", 0, 1, 3, 10, 0, "confused", 1, <<>>),
                         Saved("Orc", 0, 1, 2, 10, 0, "hostile", 0, <<>>)>>],
     FullSave |->
         [floor |-> 1, walls |-> Walls, stairsTile |-> <<3, 3>>,
          visible |-> LitFrom(<<1, 1>>), seen |-> LitFrom(<<1, 1>>),
          entities |-> <<Saved("Player", 0, 1, 1, 30, 0, "none", 0,
                               [k \in 1 .. InventoryCapacity |-> "Health Potion"]),
                         Saved("Health Potion", 0, 1, 1, 0, 0, "none", 0, <<>>)>>],
     EquipSave |->
         [floor |-> 1, walls |-> Walls, stairsTile |-> <<3, 3>>,
          visible |-> LitFrom(<<1, 1>>), seen |-> LitFrom(<<1, 1>>),
          entities |-> <<Saved("Player", 0, 1, 1, 30, 0, "none", 0,
                               <<"Dagger", "Sword", "Leather Armor">>)>>],
     ChainSave |->
         [floor |-> 1, walls |-> Walls, stairsTile |-> <<3, 3>>,
          visible |-> LitFrom(<<1, 1>>), seen |-> LitFrom(<<1, 1>>),
          entities |-> <<Saved("Player", 0, 1, 1, 30, 0, "none", 0,
                               <<"Chain Mail", "Health Potion">>),
                         Saved("Orc", 0, 1, 2, 10, 0, "hostile", 0, <<>>)>>]]

\* One pass of the entity loop of load.
RECURSIVE LoadEntities(_, _)
LoadEntities(w, es) ==
    IF es = <<>> THEN w
    ELSE LET e == Head(es)
             known == e.name[2] = 0 /\ e.name[1] \in
                         {"Orc", "Troll", "Health Potion", "Lightning Scroll",
                          "Confusion Scroll", "Fireball Scroll", "Dagger", "Sword",
                          "Leather Armor", "Chain Mail"}
             id == w.nextId
             w1 == [w EXCEPT !.entities = Append(@, spawnMap(e.name[1], id, e.x, e.y)),
                             !.nextId = @ + 1]
             w2 == IF e.name[1] \in {"Orc", "Troll"}
                   THEN setHp(w1, id, IF e.hp # 0 THEN e.hp ELSE Ent(w1, id).hp)
                   ELSE w1
             w3 == IF e.name[1] \in {"Orc", "Troll"} /\ e.aiType = "confused"
                   THEN SetEntity(w2, id, [Ent(w2, id) EXCEPT
                            !.ai = ConfusedEnemy(@, e.confusedTurnsRemaining)])
                   ELSE w2
         IN LoadEntities(IF known THEN w3 ELSE w, Tail(es))

\* GameScreen.load: the world loaded, or an error when JSON.parse throws
\* or no entity is named 'Player'
load(save) ==
    LET P == {i \in Indices(save.entities) : save.entities[i].name = <<"Player", 0>>}
        pe == save.entities[First(P)]
        w1 == [EmptyWorld EXCEPT !.entities = <<spawnPlayer(pe.x, pe.y)>>]
        w2 == setHp(w1, PlayerId, IF pe.hp # 0 THEN pe.hp ELSE Player(w1).hp)
        w3 == SetEntity(w2, PlayerId, [Player(w2) EXCEPT !.currentLevel = pe.currentLevel,
                                                         !.currentXp = pe.currentXp])
        w4 == [w3 EXCEPT !.walls = save.walls, !.stairsTile = save.stairsTile,
                         !.visible = save.visible, !.seen = save.seen,
                         !.inv = [k \in Indices(pe.inventory) |->
                                    [spawnMap(pe.inventory[k], w3.nextId + k - 1, 0, 0)
                                        EXCEPT !.parent = "inventory"]],
                         !.nextId = @ + Len(pe.inventory),
                         !.floor = save.floor]
    IN IF "entities" \notin DOMAIN save \/ P = {}
       THEN Error(EmptyWorld)
       ELSE Ok(LoadEntities(w4, save.entities))

\* new GameScreen(display, player, serializedGameMap): the screens it can
\* construct, or an error when load throws
GameScreen(save) ==
    LET StartingEquipment(w) ==
            LET dagger == [spawnDagger(w.nextId, 0, 0) EXCEPT !.parent = "inventory"]
                w1 == toggleEquip([w EXCEPT !.inv = Append(@, dagger), !.nextId = @ + 1],
                                  dagger.id, FALSE)
                leatherArmor == [spawnLeatherArmor(w1.nextId, 0, 0)
                                    EXCEPT !.parent = "inventory"]
            IN toggleEquip([w1 EXCEPT !.inv = Append(@, leatherArmor), !.nextId = @ + 1],
                           leatherArmor.id, FALSE)
    IN IF save # NoSave
       THEN IF load(save).exc = "none" THEN {Ok(updateFov(load(save).w))} ELSE {load(save)}
       ELSE {Ok(updateFov(StartingEquipment(w))) :
                w \in generateFloor([EmptyWorld EXCEPT !.entities = <<spawnPlayer(0, 0)>>])}

(***************************************************************************)
(* The state: the screen the engine shows (MainMenu until a game starts),  *)
(* the main menu's showPopup, the saved game in local storage, the fields  *)
(* of the game screen and its map, the keys the user presses and the       *)
(* pointer moves the user makes during the session (keys), the number of   *)
(* input events handled so far and the number of input events after which  *)
(* the session ends, the generator's position, and the mousePosition of    *)
(* the Engine's own input handler (pointer).                               *)
(***************************************************************************)
VARIABLES screen, showPopup, storage, keys, events, limit,
          entities, walls, stairsTile, downstairs, visible, seen,
          inv, slots, floor, handler, nextId, log, ev, acts, hpBefore,
          rooms, count, index, pc, args, pointer

vars == <<screen, showPopup, storage, keys, events, limit,
          entities, walls, stairsTile, downstairs, visible, seen,
          inv, slots, floor, handler, nextId, log, ev, acts, hpBefore,
          rooms, count, index, pc, args, pointer>>

World ==
    [entities |-> entities, walls |-> walls, stairsTile |-> stairsTile,
     downstairs |-> downstairs, visible |-> visible, seen |-> seen,
     inv |-> inv, slots |-> slots, floor |-> floor, handler |-> handler,
     nextId |-> nextId, log |-> log, ev |-> ev, acts |-> acts, hpBefore |-> hpBefore]

Becomes(w) ==
    /\ entities' = w.entities /\ walls' = w.walls /\ stairsTile' = w.stairsTile
    /\ downstairs' = w.downstairs /\ visible' = w.visible /\ seen' = w.seen
    /\ inv' = w.inv /\ slots' = w.slots /\ floor' = w.floor /\ handler' = w.handler
    /\ nextId' = w.nextId /\ log' = w.log /\ ev' = w.ev /\ acts' = w.acts
    /\ hpBefore' = w.hpBefore

\* Display.eventToPosition for the pointer moves of the sessions: off the
\* canvas it gives [-1, -1]; the display is higher than the map
\* (Engine.HEIGHT against Engine.MAP_HEIGHT), so the pointer can be on a
\* display row below the map.
eventToPosition ==
    [MouseOffCanvas |-> <<-1, -1>>, MouseBelowMap |-> <<0, MapHeight>>]

\* A session: the saved game found in local storage when the page loads,
\* the keys the user presses and the pointer moves the user makes in the
\* game, and the number of input events after which the session ends.
Sessions ==
    {[save |-> NoSave, events |-> MaxEvents - 2,
      keys |-> {"ArrowUp", "ArrowDown", "ArrowLeft", "ArrowRight", "g", "i", "a", "b",
                "5", ">", "v"}],
     [save |-> SavedGames.BattleSave, events |-> MaxEvents - 2,
      keys |-> {"ArrowUp", "ArrowDown", "ArrowRight", "5", "v", "Home", "End", "Escape",
                "s"}],
     [save |-> SavedGames.LevelSave, events |-> MaxEvents - 2,
      keys |-> {"ArrowLeft", "ArrowDown", "ArrowRight", "5", "i", "d", "a", "b", "c",
                "g", "Escape"}],
     [save |-> MagicSave, events |-> MaxEvents - 2,
      keys |-> {"ArrowRight", "PageDown", "5", "i", "a", "b", "/", "Enter", "Escape"}],
     [save |-> MagicSave, events |-> MaxEvents,
      keys |-> {"ArrowRight", "PageDown", "i", "a", "b", "Enter"}],
     [save |-> MagicSave, events |-> MaxEvents - 1,
      keys |-> {"i", "a", "/", "Shift+ArrowRight", "Ctrl+ArrowDown", "Alt+ArrowLeft",
                "Enter", "MouseOffCanvas", "MouseBelowMap"}],
     [save |-> SavedGames.DeadSave, events |-> MaxEvents, keys |-> {"Escape"}],
     [save |-> InvalidJson, events |-> MaxEvents, keys |-> {"5", "s"}],
     [save |-> SavedGames.RangeSave, events |-> MaxEvents, keys |-> {"i", "a", "5"}],
     [save |-> SavedGames.ConfusedSave, events |-> MaxEvents, keys |-> {"5"}],
     [save |-> SavedGames.FullSave, events |-> MaxEvents, keys |-> {"g", "d", "a", "5"}],
     [save |-> SavedGames.EquipSave, events |-> MaxEvents, keys |-> {"i", "d", "a", "b", "c"}],
     [save |-> SavedGames.ChainSave, events |-> MaxEvents - 2, keys |-> {"i", "a", "b", "5", "ArrowDown", "s"}]}

Init ==
    /\ screen = "MainMenu"
    /\ showPopup = FALSE
    /\ \E s \in Sessions : storage = s.save /\ keys = s.keys /\ limit = s.events
    /\ events = 0
    /\ entities = EmptyWorld.entities /\ walls = EmptyWorld.walls
    /\ stairsTile = EmptyWorld.stairsTile /\ downstairs = EmptyWorld.downstairs
    /\ visible = EmptyWorld.visible /\ seen = EmptyWorld.seen
    /\ inv = EmptyWorld.inv /\ slots = EmptyWorld.slots /\ floor = EmptyWorld.floor
    /\ handler = EmptyWorld.handler /\ nextId = EmptyWorld.nextId
    /\ log = EmptyWorld.log /\ ev = EmptyWorld.ev /\ acts = EmptyWorld.acts
    /\ hpBefore = EmptyWorld.hpBefore
    /\ rooms = <<>> /\ count = 0 /\ index = 0 /\ pc = "idle"
    /\ args = [mapWidth |-> MapWidth, mapHeight |-> MapHeight, maxRooms |-> 0,
               minSize |-> 0, maxSize |-> 0]
    /\ pointer = <<0, 0>>

\* MainMenu.update
MainMenuUpdate(k) ==
    /\ screen = "MainMenu"
    /\ pc = "idle"
    /\ UNCHANGED <<storage, keys, events, limit, rooms, count, index, pc, args, pointer>>
    /\ IF showPopup
       THEN showPopup' = FALSE /\ UNCHANGED screen /\ Becomes(World)
       ELSE IF k \in {"n", "c"}
            THEN \E r \in GameScreen(IF k = "n" THEN NoSave ELSE storage) :
                    IF r.exc = "none"
                    THEN screen' = "Game" /\ UNCHANGED showPopup /\ Becomes(r.w)
                    ELSE showPopup' = TRUE /\ UNCHANGED screen /\ Becomes(World)
            ELSE UNCHANGED <<screen, showPopup>> /\ Becomes(World)

\* GameScreen.update
GameScreenUpdate(k) ==
    /\ screen = "Game"
    /\ events < limit
    /\ events' = events + 1
    /\ UNCHANGED <<screen, showPopup, keys, limit, rooms, count, index, pc, args, pointer>>
    /\ IF k = "s"
       THEN storage' = toObject(World) /\ Becomes(World)
       ELSE UNCHANGED storage /\ \E w \in update(World, k) : Becomes(w)

\* The mousemove listener of a variant Engine that hands the pointer
\* position to the input handler of the screen.
MouseMove_OnScreenHandler(position) ==
    /\ events < limit
    /\ events' = events + 1
    /\ handler' = [handler EXCEPT !.cursor = position]
    /\ UNCHANGED <<screen, showPopup, storage, keys, limit, entities, walls, stairsTile,
                   downstairs, visible, seen, inv, slots, floor, nextId, log, ev, acts,
                   hpBefore, rooms, count, index, pc, args, pointer>>

\* The mousemove listener of Engine: handleMouseMovement on the input
\* handler of the Engine, which is not the input handler of the screen.
MouseMove(position) ==
    /\ events < limit
    /\ events' = events + 1
    /\ pointer' = position
    /\ UNCHANGED <<screen, showPopup, storage, keys, limit, entities, walls, stairsTile,
                   downstairs, visible, seen, inv, slots, floor, handler, nextId, log,
                   ev, acts, hpBefore, rooms, count, index, pc, args>>

Next ==
    \/ \E k \in {"n", "c", "Escape"} : MainMenuUpdate(k)
    \/ \E k \in keys \ DOMAIN eventToPosition : GameScreenUpdate(k)
    \/ \E m \in keys \cap DOMAIN eventToPosition : MouseMove(eventToPosition[m])

Spec == Init /\ [][Next]_vars

(***************************************************************************)
(* The dungeon generator of procgen.ts, step by step.  The specification   *)
(* GenSpec runs one call of generateDungeon(mapWidth, mapHeight, maxRooms, *)
(* minSize, maxSize, player): the room loop (count), the player's start,   *)
(* the corridor loop (index) and the staircase.  The map under             *)
(* construction is walls (every tile that is not walkable), the accepted   *)
(* rooms are rooms, and pc is the position in the function.  Every value   *)
(* Math.random can produce is a choice.  placeEntities, which the room     *)
(* loop calls for an accepted room, changes neither tiles nor rooms; it is *)
(* left out of GenSpec and GenLive and is part of the room loop of PopSpec *)
(* below.                                                                  *)
(***************************************************************************)

\* RectangularRoom.intersects
intersects(this, other) ==
    /\ this.x <= other.x + other.width
    /\ this.x + this.width >= other.x
    /\ this.y <= other.y + other.height
    /\ this.y + this.width >= other.y

\* A centre that is the corner the room is placed at.
center_TopLeft(room) == <<room.x, room.y>>

\* RectangularRoom.center
center(room) == <<room.x + room.width \div 2, room.y + room.height \div 2>>

\* GameMap.addRoom with the tiles of RectangularRoom.buildRoom: the tiles of
\* the rectangle are overwritten, its edge with walls and the rest with floor.
addRoom(ws, room) ==
    LET xs == room.x .. room.x + room.width - 1
        ys == room.y .. room.y + room.height - 1
    IN (ws \ (xs \X ys))
       \cup {p \in xs \X ys : \/ p[1] \in {room.x, room.x + room.width - 1}
                              \/ p[2] \in {room.y, room.y + room.height - 1}}

\* A tunnel that follows its first axis only and never turns.
connectRooms_NoTurn(a, b, horizontal) ==
    LET s == center(a)
        e == center(b)
    IN IF horizontal
       THEN {<<x, s[2]>> : x \in Min(s[1], e[1]) .. Max(s[1], e[1])} \ {s}
       ELSE {<<s[1], y>> : y \in Min(s[2], e[2]) .. Max(s[2], e[2])} \ {s}

\* connectRooms: the tiles the generator yields, for one result of the coin
\* flip.  The axis is 1 for x and 2 for y (axisIndex + 1).
connectRooms(a, b, horizontal) ==
    LET end == center(b)
        RECURSIVE Yield(_, _)
        Yield(current, axis) ==
            IF current = end THEN {}
            ELSE LET d == end[axis] - current[axis]
                     direction == IF d > 0 THEN 1 ELSE IF d < 0 THEN -1 ELSE 0
                     next == [current EXCEPT ![axis] = @ + direction]
                 IN IF direction # 0
                    THEN {next} \cup Yield(next, axis)
                    ELSE {current} \cup Yield(current, 3 - axis)
    IN Yield(center(a), IF horizontal THEN 1 ELSE 2)

\* The state when generateDungeon(a.mapWidth, a.mapHeight, a.maxRooms,
\* a.minSize, a.maxSize, player) is called for a new game: the map is all
\* walls, downstairsLocation is [0, 0] and the player is its only entity.
Called(a) ==
    /\ screen = "MainMenu" /\ showPopup = FALSE
    /\ storage = NoSave /\ keys = {} /\ limit = 0 /\ events = 0
    /\ entities = <<spawnPlayer(0, 0)>>
    /\ walls = (0 .. a.mapWidth - 1) \X (0 .. a.mapHeight - 1)
    /\ stairsTile = <<0, 0>> /\ downstairs = <<0, 0>>
    /\ visible = {} /\ seen = {}
    /\ inv = EmptyWorld.inv /\ slots = EmptyWorld.slots /\ floor = 1
    /\ handler = EmptyWorld.handler /\ nextId = EmptyWorld.nextId
    /\ log = EmptyWorld.log /\ ev = <<>> /\ acts = <<>> /\ hpBefore = 0
    /\ rooms = <<>> /\ count = 0 /\ index = 0 /\ pc = "rooms"
    /\ args = a
    /\ pointer = <<0, 0>>

GenInit ==
    Called([mapWidth |-> mapWidth, mapHeight |-> mapHeight, maxRooms |-> maxRooms,
            minSize |-> minSize, maxSize |-> maxSize])

\* A room loop that tries again when the candidate intersects an accepted
\* room: the pass is counted only when the room is accepted.
GenerateRoom_Retry ==
    /\ pc = "rooms" /\ count < args.maxRooms
    /\ \E width \in generateRandomNumber(args.minSize, args.maxSize),
          height \in generateRandomNumber(args.minSize, args.maxSize) :
          \E x \in generateRandomNumber(0, args.mapWidth - width - 1),
             y \in generateRandomNumber(0, args.mapHeight - height - 1) :
             LET newRoom == [x |-> x, y |-> y, width |-> width, height |-> height]
             IN IF \E i \in Indices(rooms) : intersects(rooms[i], newRoom)
                THEN UNCHANGED <<walls, rooms, count, pc>>
                ELSE IF y < 0 \/ y + height > args.mapHeight
                     THEN pc' = "threw" /\ UNCHANGED <<walls, rooms, count>>
                     ELSE /\ rooms' = Append(rooms, newRoom)
                          /\ walls' = addRoom(walls, newRoom)
                          /\ count' = count + 1
                          /\ UNCHANGED pc
    /\ UNCHANGED <<screen, showPopup, storage, keys, events, limit, entities, stairsTile,
                   downstairs, visible, seen, inv, slots, floor, handler, nextId, log,
                   ev, acts, hpBefore, index, args, pointer>>

\* One pass of the room loop of generateDungeon.  GameMap.addRoom reads
\* this.tiles[curY] for every row of the room and assigns into it: for a row
\* outside the map the read gives undefined and the assignment throws a
\* TypeError, which ends generateDungeon and drops the map it was building.
\* A column outside the map only adds a property to the row.
GenerateRoom ==
    /\ pc = "rooms" /\ count < args.maxRooms
    /\ \E width \in generateRandomNumber(args.minSize, args.maxSize),
          height \in generateRandomNumber(args.minSize, args.maxSize) :
          \E x \in generateRandomNumber(0, args.mapWidth - width - 1),
             y \in generateRandomNumber(0, args.mapHeight - height - 1) :
             LET newRoom == [x |-> x, y |-> y, width |-> width, height |-> height]
             IN IF \E i \in Indices(rooms) : intersects(rooms[i], newRoom)
                THEN count' = count + 1 /\ UNCHANGED <<walls, rooms, pc>>
                ELSE IF y < 0 \/ y + height > args.mapHeight
                     THEN pc' = "threw" /\ UNCHANGED <<walls, rooms, count>>
                     ELSE /\ rooms' = Append(rooms, newRoom)
                          /\ walls' = addRoom(walls, newRoom)
                          /\ count' = count + 1
                          /\ UNCHANGED pc
    /\ UNCHANGED <<screen, showPopup, storage, keys, events, limit, entities, stairsTile,
                   downstairs, visible, seen, inv, slots, floor, handler, nextId, log,
                   ev, acts, hpBefore, index, args, pointer>>

\* After the room loop: the player is put on the centre of the first room.
PlacePlayer ==
    /\ pc = "rooms" /\ count >= args.maxRooms
    /\ entities' = [entities EXCEPT ![1].x = center(rooms[1])[1],
                                    ![1].y = center(rooms[1])[2]]
    /\ pc' = "corridors"
    /\ UNCHANGED <<screen, showPopup, storage, keys, events, limit, walls, stairsTile,
                   downstairs, visible, seen, inv, slots, floor, handler, nextId, log,
                   ev, acts, hpBefore, rooms, count, index, args, pointer>>

\* One pass of the corridor loop: rooms[index] is connected to the next room.
ConnectRooms ==
    /\ pc = "corridors" /\ index < Len(rooms) - 1
    /\ \E horizontal \in BOOLEAN :
          walls' = walls \ connectRooms(rooms[index + 1], rooms[index + 2], horizontal)
    /\ index' = index + 1
    /\ UNCHANGED <<screen, showPopup, storage, keys, events, limit, entities, stairsTile,
                   downstairs, visible, seen, inv, slots, floor, handler, nextId, log,
                   ev, acts, hpBefore, rooms, count, pc, args, pointer>>

\* After the corridor loop: the staircase on the centre of the last room.
PlaceStairs ==
    /\ pc = "corridors" /\ index >= Len(rooms) - 1
    /\ walls' = walls \ {center(rooms[Len(rooms)])}
    /\ stairsTile' = center(rooms[Len(rooms)])
    /\ downstairs' = center(rooms[Len(rooms)])
    /\ pc' = "done"
    /\ UNCHANGED <<screen, showPopup, storage, keys, events, limit, entities,
                   visible, seen, inv, slots, floor, handler, nextId, log,
                   ev, acts, hpBefore, rooms, count, index, args, pointer>>

GenNext == GenerateRoom \/ PlacePlayer \/ ConnectRooms \/ PlaceStairs

GenSpec == GenInit /\ [][GenNext]_vars

\* generateDungeon called with any arguments up to MaxSide (maps one tile
\* narrower) and MaxPasses.  It is sequential code that runs to its return:
\* while a step of it is possible, a step is taken.
GenLive ==
    /\ \E w \in 1 .. MaxSide - 1, h \in 1 .. MaxSide, n \in 1 .. MaxPasses,
          lo, hi \in 1 .. MaxSide :
          /\ lo <= hi
          /\ Called([mapWidth |-> w, mapHeight |-> h, maxRooms |-> n,
                     minSize |-> lo, maxSize |-> hi])
    /\ [][GenNext]_vars /\ WF_vars(GenNext)

(***************************************************************************)
(* The generator with the monsters and items of its rooms.  PopSpec runs   *)
(* generateDungeon as the game calls it for its first floor, on a small    *)
(* map: an accepted room is populated by placeEntities before the next     *)
(* pass of the room loop.                                                  *)
(***************************************************************************)

\* placeEntities(room, dungeon, floorNumber): the entity lists (with the next
\* free id) the call can leave behind.  The number of monsters and of items
\* is drawn up to the maximum of the floor, each position is drawn from the
\* inside of the room, and nothing is spawned on a tile that an entity of
\* the map has already.
placeEntities(st, room, floorNumber) ==
    LET MAX_ITEMS_BY_FLOOR == <<<<1, 1>>, <<4, 2>>>>
        MAX_MONSTERS_BY_FLOOR == <<<<1, 2>>, <<4, 3>>, <<6, 5>>>>
        ITEM_CHANCES == <<<<0, "Health Potion">>, <<2, "Confusion Scroll">>,
                          <<4, "Lightning Scroll">>, <<6, "Fireball Scroll">>>>
        MONSTER_CHANCES == <<<<0, "Orc">>, <<3, "Troll">>, <<5, "Troll">>, <<7, "Troll">>>>
        getMaxValueForFloor(maxValueByFloor) ==
            LET reached == {i \in Indices(maxValueByFloor) :
                               \A j \in 1 .. i : maxValueByFloor[j][1] <= floorNumber}
            IN IF reached = {} THEN 0 ELSE maxValueByFloor[Cardinality(reached)][2]
        \* the spawn types with a weight: RNG.getWeightedValue returns any
        getWeights(chancesByFloor) ==
            {chancesByFloor[i][2] : i \in {i \in Indices(chancesByFloor) :
                   \A j \in 1 .. i : chancesByFloor[j][1] <= floorNumber}}
        bounds == [x1 |-> room.x, y1 |-> room.y,
                   x2 |-> room.x + room.width - 1, y2 |-> room.y + room.height - 1]
        RECURSIVE Loop(_, _, _)
        Loop(s0, i, spawnTypes) ==
            IF i = 0 THEN {s0}
            ELSE UNION {
                IF \E k \in Indices(s0.entities) :
                      s0.entities[k].x = x /\ s0.entities[k].y = y
                THEN Loop(s0, i - 1, spawnTypes)
                ELSE UNION {Loop([entities |-> Append(s0.entities,
                                                      spawnMap(spawnType, s0.nextId, x, y)),
                                  nextId |-> s0.nextId + 1], i - 1, spawnTypes) :
                            spawnType \in spawnTypes} :
                x \in generateRandomNumber(bounds.x1 + 1, bounds.x2 - 1),
                y \in generateRandomNumber(bounds.y1 + 1, bounds.y2 - 1)}
    IN UNION {UNION {Loop(s1, numberOfItemsToAdd, getWeights(ITEM_CHANCES)) :
                     s1 \in Loop(st, numberOfMonstersToAdd, getWeights(MONSTER_CHANCES))} :
              numberOfMonstersToAdd \in
                  generateRandomNumber(0, getMaxValueForFloor(MAX_MONSTERS_BY_FLOOR)),
              numberOfItemsToAdd \in
                  generateRandomNumber(0, getMaxValueForFloor(MAX_ITEMS_BY_FLOOR))}

\* One pass of the room loop of generateDungeon, with placeEntities for the
\* room it accepts.
GenerateRoomPlaceEntities ==
    /\ pc = "rooms" /\ count < args.maxRooms
    /\ \E width \in generateRandomNumber(args.minSize, args.maxSize),
          height \in generateRandomNumber(args.minSize, args.maxSize) :
          \E x \in generateRandomNumber(0, args.mapWidth - width - 1),
             y \in generateRandomNumber(0, args.mapHeight - height - 1) :
             LET newRoom == [x |-> x, y |-> y, width |-> width, height |-> height]
             IN IF \E i \in Indices(rooms) : intersects(rooms[i], newRoom)
                THEN count' = count + 1 /\ UNCHANGED <<walls, rooms, pc, entities, nextId>>
                ELSE IF y < 0 \/ y + height > args.mapHeight
                     THEN pc' = "threw" /\ UNCHANGED <<walls, rooms, count, entities, nextId>>
                     ELSE /\ rooms' = Append(rooms, newRoom)
                          /\ walls' = addRoom(walls, newRoom)
                          /\ \E st \in placeEntities([entities |-> entities,
                                                      nextId |-> nextId], newRoom, floor) :
                                entities' = st.entities /\ nextId' = st.nextId
                          /\ count' = count + 1
                          /\ UNCHANGED pc
    /\ UNCHANGED <<screen, showPopup, storage, keys, events, limit, stairsTile,
                   downstairs, visible, seen, inv, slots, floor, handler, log,
                   ev, acts, hpBefore, index, args, pointer>>

PopSpec ==
    /\ Called([mapWidth |-> PopWidth, mapHeight |-> PopHeight, maxRooms |-> PopRooms,
               minSize |-> PopMinSize, maxSize |-> PopMaxSize])
    /\ [][GenerateRoomPlaceEntities \/ PlacePlayer \/ ConnectRooms \/ PlaceStairs]_vars

(***************************************************************************)
(* Properties.                                                             *)
(***************************************************************************)
\* The last key event performed a player action (perform was called).
ActionPerformed == screen = "Game" /\ acts # <<>> /\ acts[1].step = "player"

\* ... and the action threw an ImpossibleException / returned normally.
ActionFailed == ActionPerformed /\ acts[1].exc = "impossible"
ActionSucceeded == ActionPerformed /\ acts[1].exc = "none"

\* The non-player actors that are alive (have an AI), as map indices.
LivingEnemies == {i \in Indices(entities) :
                     entities[i].isActor /\ entities[i].id # PlayerId /\ entities[i].ai # <<>>}

EnemySteps == {i \in Indices(acts) : acts[i].step = "enemy"}

\* C1: when the player's action of a key event fails with an
\* ImpossibleException, update catches it (the message is logged and the
\* event ends there) and no enemy takes a turn in that key event.
C1_FailedActionNoEnemyTurn ==
    ActionFailed =>
        /\ EnemySteps = {}
        /\ Len(acts) = 1
        /\ ev # <<>> /\ ev[Len(ev)] = log.last

\* A failed player action with a living enemy on the map.
C1_Witness == ActionFailed /\ LivingEnemies # {}

\* The game state a key event can change apart from the message log and the
\* input handler: entities (position, hp, AI), inventory, equipment, tiles.
GameState ==
    <<entities, inv, slots, walls, stairsTile, downstairs, visible, seen, floor>>

\* C2: a key event whose player action fails with an ImpossibleException
\* changes nothing of the game state and adds exactly one message to the
\* message log, the message of the exception.
C2_FailedActionOnlyLogsOnce ==
    [][ActionFailed' =>
          /\ GameState' = GameState
          /\ Len(ev') = 1
          /\ log' = Stack(log, ev'[1])]_vars

\* C3: in a key event whose action succeeds the player's step comes first,
\* then one step for every non-player actor in the map's entity order, in
\* which the actor acts exactly when it is alive at that moment, and last,
\* once, the recomputation of the field of view from where the player stands.
C3_PlayerThenEnemiesThenFov ==
    ActionSucceeded =>
        /\ Len(acts) >= 2
        /\ acts[Len(acts)].step = "fov"
        /\ \A i \in 2 .. Len(acts) - 1 :
              /\ acts[i].step = "enemy"
              /\ acts[i].acted <=> acts[i].alive
        /\ \A i, j \in EnemySteps :
              i < j => IndexOf(entities, acts[i].id) < IndexOf(entities, acts[j].id)
        /\ \A e \in LivingEnemies :
              Cardinality({i \in EnemySteps :
                              acts[i].id = entities[e].id /\ acts[i].acted}) = 1
        /\ visible = Lit(World, <<Player(World).x, Player(World).y>>)

\* A successful player action after which two enemies took their turns.
C3_Witness ==
    ActionSucceeded /\ Cardinality({i \in EnemySteps : acts[i].acted}) >= 2

\* C4: the death transition (death message, rename to "Remains of <name>",
\* experience award) fires at most once for every actor: no name ever
\* carries more than one "Remains of ".
C4_DeathFiresAtMostOnce ==
    \A i \in Indices(entities) : entities[i].isActor => entities[i].remains <= 1

\* The player is dead: its hp has reached 0.
PlayerDead == screen = "Game" /\ Player(World).hp = 0

\* C5: once the player's hp is 0, no key event changes the game state or
\* lets an enemy take a turn, whatever handler receives the key.
C5_DeadPlayerFreezesGame ==
    [][PlayerDead => (GameState' = GameState /\ EnemySteps' = {})]_vars

\* C6 as stated: after the player's hp has reached 0 the key 'v' still opens
\* the message log view.
C6_LogOpensAfterDeath ==
    [][(PlayerDead /\ handler.state = "Game" /\ GameScreenUpdate("v"))
          => handler'.state = "Log"]_vars

\* C6, amended: after the player's hp has reached 0 the game handler ignores
\* every key, 'v' included, so the log view cannot be opened; a log view
\* that was open when the player died still scrolls (ArrowUp moves its
\* cursor one line up, wrapping from the first line to the last).
C6_LogScrollsButDoesNotOpenAfterDeath ==
    [][PlayerDead =>
          /\ handler.state = "Game" => handler' = handler
          /\ (handler.state = "Log" /\ GameScreenUpdate("ArrowUp")) =>
                handler' = [handler EXCEPT
                               !.logCursor = IF @ = 0 THEN log.len - 1 ELSE @ - 1]]_vars

\* A key event that arrived with the player dead and the log view open, and
\* scrolled it.
C6_Witness ==
    /\ screen = "Game" /\ hpBefore = 0 /\ Player(World).hp = 0
    /\ handler.state = "Log" /\ ActionSucceeded

Fighters == {i \in Indices(entities) : entities[i].isActor}

\* C7: in the game every fighter's hp lies between 0 and its maxHp, after
\* melee damage, takeDamage, heal, the max-hp increase of a level-up and
\* load.
C7_HpWithinBounds ==
    screen = "Game" =>
        \A i \in Fighters : 0 <= entities[i].hp /\ entities[i].hp <= entities[i].maxHp

\* The player has taken the max-hp increase of a level-up and some fighter
\* has been brought to 0 hp.
C7_Witness ==
    /\ screen = "Game"
    /\ Player(World).maxHp > spawnPlayer(0, 0).maxHp
    /\ \E i \in Fighters : entities[i].hp = 0

\* C8: every actor whose hp is 0 has no AI, does not block movement and is
\* rendered as a corpse.
C8_DeadActorIsCorpse ==
    \A i \in Fighters :
        entities[i].hp = 0 =>
            /\ entities[i].ai = <<>>
            /\ ~entities[i].blocksMovement
            /\ entities[i].renderOrder = RenderOrder.Corpse

\* An enemy has been killed.
C8_Witness ==
    \E i \in Fighters :
        entities[i].id # PlayerId /\ entities[i].hp = 0 /\ entities[i].remains = 1

\* The enemy steps of the last key event that threw an ImpossibleException.
FailedEnemySteps == {i \in EnemySteps : acts[i].exc = "impossible"}

\* C9: an enemy's step that throws an ImpossibleException adds no message to
\* the log, and every enemy alive after it still takes its turn before the
\* field of view is recomputed.
C9_EnemyFailureIsSilent ==
    FailedEnemySteps # {} =>
        /\ \A i \in FailedEnemySteps : acts[i].msgs = 0
        /\ \A k \in Indices(ev) : ev[k].text # "That way is blocked."
        /\ \A e \in LivingEnemies :
              \E i \in EnemySteps : acts[i].id = entities[e].id /\ acts[i].acted
        /\ acts[Len(acts)].step = "fov"

\* An enemy's move was blocked and an enemy after it in the order attacked.
C9_Witness ==
    \E i \in FailedEnemySteps :
        \E j \in EnemySteps : j > i /\ acts[j].acted /\ acts[j].msgs > 0

\* C10: using Fireball on a visible tile fails exactly when no living actor
\* lies within the radius of the tile; otherwise it succeeds and every actor
\* within the radius takes the damage.
C10_FireballFailsOnlyWithoutTargets ==
    [][LET \* The living actors within the Fireball's radius of the targeting cursor.
           InRadius ==
               {i \in ActorIndices(World) :
                   Distance2(entities[i], handler.cursor[1], handler.cursor[2])
                       <= FireballRadius * FireballRadius}
           \* Enter, in the area targeting handler, on a visible tile: the Fireball
           \* Scroll is used on the tile under the cursor.
           FireballUse ==
               /\ screen = "Game" /\ handler.state = "AreaRanged"
               /\ handler.cursor \in visible
               /\ GameScreenUpdate("Enter")
       IN FireballUse =>
             /\ ActionFailed' <=> InRadius = {}
             /\ \A i \in InRadius :
                   entities'[i].hp <= Max(0, entities[i].hp - FireballDamage)]_vars

\* C11: when a use of the Fireball Scroll fails (target tile not visible or
\* no actor hit) the scroll is still in the inventory and no actor's hp has
\* changed.
C11_FailedFireballKeepsScroll ==
    [][LET \* Enter in the area targeting handler: the Fireball Scroll is used on the
           \* tile under the cursor, visible or not.
           FireballAttempt ==
               screen = "Game" /\ handler.state = "AreaRanged" /\ GameScreenUpdate("Enter")
       IN (FireballAttempt /\ ActionFailed') =>
             /\ inv' = inv
             /\ IndexOf(inv', handler.item) # 0
             /\ Len(entities') = Len(entities)
             /\ \A i \in Indices(entities) : entities'[i].hp = entities[i].hp]_vars

\* A Fireball use has just failed for want of targets, with enemies alive.
C11_Witness ==
    /\ ActionFailed /\ LivingEnemies # {}
    /\ ev[1].text = "There are no targets in the radius."
    /\ \E k \in Indices(inv) : inv[k].consumable = "fireball"

\* The inventory key k selects a Lightning Scroll and the player uses it.
LightningUse(k) ==
    /\ screen = "Game" /\ handler.state = "UseInventory"
    /\ charCode[k] - charCode["a"] + 1 \in Indices(inv)
    /\ inv[charCode[k] - charCode["a"] + 1].consumable = "lightning"
    /\ GameScreenUpdate(k)

\* The square of the distance from the player to the actor at index i.
PlayerDistance2(i) == Distance2(Player(World), entities[i].x, entities[i].y)

\* The living actors other than the player on visible tiles.
VisibleOthers ==
    {i \in ActorIndices(World) :
        entities[i].id # PlayerId /\ <<entities[i].x, entities[i].y>> \in visible}

\* What a use of Lightning does when C is the set of actors it may strike:
\* with C empty it fails and no hp changes, otherwise it succeeds and takes
\* the damage from a nearest member of C and from no other enemy.
LightningStrikes(C) ==
    IF C = {}
    THEN ActionFailed' /\ \A i \in Fighters : entities'[i].hp = entities[i].hp
    ELSE /\ ActionSucceeded'
         /\ \E t \in C :
               /\ \A j \in C : PlayerDistance2(t) <= PlayerDistance2(j)
               /\ entities'[t].hp = Max(0, entities[t].hp - LightningDamage)
               /\ \A j \in Fighters :
                     (j # t /\ entities[j].id # PlayerId) => entities'[j].hp = entities[j].hp

\* C12 as stated: Lightning strikes the nearest visible actor other than the
\* user whose distance is at most maxRange, and fails when there is none.
C12_LightningWithinMaxRange ==
    [][\A k \in {"a", "b"} :
          LightningUse(k) =>
              LightningStrikes({i \in VisibleOthers :
                                   PlayerDistance2(i) <= LightningMaxRange * LightningMaxRange})]_vars

\* C12, amended: Lightning strikes the nearest visible actor other than the
\* user whose distance is less than maxRange + 1, and fails when there is
\* none.
C12_LightningWithinMaxRangePlusOne ==
    [][\A k \in {"a", "b"} :
          LightningUse(k) =>
              LightningStrikes({i \in VisibleOthers :
                                   PlayerDistance2(i)
                                       < (LightningMaxRange + 1) * (LightningMaxRange + 1)})]_vars

\* Lightning has just struck one of the enemies in sight.
C12_Witness ==
    /\ ActionSucceeded /\ ev # <<>>
    /\ ev[1].text = "A lighting bolt strikes with a loud thunder!"
    /\ \E i \in Fighters : entities[i].id # PlayerId /\ entities[i].hp = 0

\* The entity at index i is an enemy that is confused before the key event,
\* takes its turn during the event and is alive after it; s is its step.
ConfusedTurn(i, s) ==
    /\ entities[i].isActor /\ entities[i].ai # <<>>
    /\ entities[i].ai[1].type = "confused"
    /\ i \in Indices(entities') /\ entities'[i].id = entities[i].id
    /\ entities'[i].ai # <<>>
    /\ s \in EnemySteps' /\ acts'[s].id = entities[i].id /\ acts'[s].acted

\* C13: a turn of a confused enemy with turnsRemaining > 0 attempts one bump
\* in one of the eight directions (it moves by at most one tile and throws
\* nothing but an ImpossibleException) and lowers turnsRemaining by 1.
C13_ConfusedTurnBumpsAndCounts ==
    [][\A i \in Indices(entities) : \A s \in Indices(acts') :
          (ConfusedTurn(i, s) /\ entities[i].ai[1].turnsRemaining > 0) =>
              /\ acts'[s].exc \in {"none", "impossible"}
              /\ entities'[i].ai[1].type = "confused"
              /\ entities'[i].ai[1].turnsRemaining = entities[i].ai[1].turnsRemaining - 1
              /\ Abs(entities'[i].x - entities[i].x) <= 1
              /\ Abs(entities'[i].y - entities[i].y) <= 1]_vars

\* C14: a turn of a confused enemy with turnsRemaining <= 0 puts the previous
\* AI back and does nothing else: the enemy stays where it is and the only
\* message of its step is that it is no longer confused.
C14_ConfusionEndsWithoutActing ==
    [][\A i \in Indices(entities) : \A s \in Indices(acts') :
          (ConfusedTurn(i, s) /\ entities[i].ai[1].turnsRemaining <= 0) =>
              /\ entities'[i].ai = Tail(entities[i].ai)
              /\ entities'[i].x = entities[i].x /\ entities'[i].y = entities[i].y
              /\ acts'[s].exc = "none" /\ acts'[s].msgs = 1]_vars

\* An enemy has just stopped being confused, next to an actor it could
\* have attacked.
C14_Witness ==
    /\ \E k \in Indices(ev) : ev[k].text = "The actor is no longer confused."
    /\ \E i, j \in Fighters :
          /\ entities[i].ai # <<>> /\ entities[i].ai[1].type = "hostile"
          /\ i # j /\ Distance2(entities[i], entities[j].x, entities[j].y) <= 2

\* C15: the inventory never holds more than `capacity` items, after any
\* pickups, drops, item uses, equips and after a new game or a load.
C15_InventoryWithinCapacity ==
    screen = "Game" => Len(inv) <= InventoryCapacity

\* The inventory is full and a pickup has just been refused for it.
C15_Witness ==
    /\ screen = "Game" /\ Len(inv) = InventoryCapacity
    /\ ActionFailed /\ ev[1].text = "Your inventory is full."

\* The game handler takes the key: the player is alive and has no level-up
\* pending.
GameKeyTaken ==
    /\ screen = "Game" /\ handler.state = "Game"
    /\ Player(World).hp > 0 /\ ~requiresLevelUp(Player(World))

\* C16: a pickup fails exactly when no item lies on the player's tile or
\* the inventory already holds `capacity` items, and a failed pickup leaves
\* the inventory and the map's entities as they were.
C16_PickupFailsCleanly ==
    [][LET \* The items lying on the player's tile.
           ItemsHere ==
               {i \in ItemIndices(World) :
                   entities[i].x = Player(World).x /\ entities[i].y = Player(World).y}
       IN (GameKeyTaken /\ GameScreenUpdate("g")) =>
             /\ ActionFailed' <=> (ItemsHere = {} \/ Len(inv) >= InventoryCapacity)
             /\ ActionFailed' => (inv' = inv /\ entities' = entities)
             /\ ActionSucceeded' => Len(inv') = Len(inv) + 1]_vars

\* A pickup has just failed on a tile without items while items lie
\* elsewhere on the map.
C16_Witness ==
    /\ ActionFailed /\ ev[1].text = "There is nothing here to pick up."
    /\ ItemIndices(World) # {}

\* The destination <<x, y>> is out of bounds, not walkable or occupied by an
\* entity that blocks movement.
Blocked(x, y) ==
    \/ ~(0 <= x /\ x < MapWidth /\ 0 <= y /\ y < MapHeight)
    \/ <<x, y>> \in walls
    \/ \E i \in Indices(entities) :
          entities[i].blocksMovement /\ entities[i].x = x /\ entities[i].y = y

\* C17: Movement(dx, dy) fails with an ImpossibleException, leaving the
\* actor where it is, exactly when the destination is out of bounds, not
\* walkable or occupied by a blocking entity; otherwise the actor's position
\* becomes (x + dx, y + dy).
C17_MovementFailsExactlyWhenBlocked ==
    /\ [](\* Movement by any living actor of the map in any of the eight
          \* directions, applied to the current state.
          screen = "Game" =>
              \A i \in ActorIndices(World) : \A n \in Indices(directions) :
                  LET e == entities[i]
                      x == e.x + directions[n][1]
                      y == e.y + directions[n][2]
                      r == MovementAction(World, e.id, directions[n][1], directions[n][2])
                  IN /\ r.exc = "impossible" <=> Blocked(x, y)
                     /\ r.exc = "impossible" => r.w = World
                     /\ r.exc # "impossible" =>
                           /\ r.exc = "none"
                           /\ r.w = [World EXCEPT !.entities[i].x = x, !.entities[i].y = y])
    /\ [][LET \* A move key pressed while the game handler takes keys and no living actor
              \* stands on the destination: the player's BumpAction is a Movement.
              PlayerMoves(k) ==
                  /\ GameKeyTaken
                  /\ getActorAtLocation(World, Player(World).x + MOVE_KEYS[k][1],
                                        Player(World).y + MOVE_KEYS[k][2]) = 0
                  /\ GameScreenUpdate(k)
          IN \A k \in keys \cap DOMAIN MOVE_KEYS :
                PlayerMoves(k) =>
                    LET x == Player(World).x + MOVE_KEYS[k][1]
                        y == Player(World).y + MOVE_KEYS[k][2]
                    IN /\ ActionFailed' <=> Blocked(x, y)
                       /\ ActionFailed' =>
                             /\ Player(World)'.x = Player(World).x
                             /\ Player(World)'.y = Player(World).y
                       /\ ActionSucceeded' =>
                             Player(World)'.x = x /\ Player(World)'.y = y]_vars

\* The player has moved off the tile the game started on and, in the last
\* key event, an enemy's move was refused because another enemy stood in
\* its way.
C17_Witness ==
    /\ screen = "Game" /\ ActionSucceeded /\ acts[1].msgs = 0
    /\ <<Player(World).x, Player(World).y>> \notin {<<1, 1>>, <<3, 1>>}
    /\ FailedEnemySteps # {}

\* The inventory handler (state "UseInventory" or "DropInventory") is active
\* and the key k selects an item of the inventory.
SelectsItem(state, k) ==
    /\ screen = "Game" /\ handler.state = state
    /\ k \in DOMAIN charCode
    /\ charCode[k] - charCode["a"] + 1 \in Indices(inv)

SelectedItem(k) == inv[charCode[k] - charCode["a"] + 1]

\* C18: after Drop(item) of an item held in the inventory the item is no
\* longer in the inventory, lies on the map at the actor's position and is
\* in no equipment slot, so that its bonus no longer applies.
C18_DroppedItemLeavesInventoryAndSlots ==
    [][LET \* The bonus the item adds to power and defense while it is equipped.
           BonusOf(w, item) ==
               IF itemIsEquipped(w, item.id) THEN item.powerBonus + item.defenseBonus ELSE 0
       IN \A k \in keys :
             (SelectsItem("DropInventory", k) /\ GameScreenUpdate(k)) =>
                 LET item == SelectedItem(k) IN
                 /\ ActionSucceeded'
                 /\ \A j \in Indices(inv') : inv'[j].id # item.id
                 /\ Len(inv') = Len(inv) - 1
                 /\ \E i \in Indices(entities') :
                       /\ entities'[i].id = item.id
                       /\ entities'[i].x = Player(World).x
                       /\ entities'[i].y = Player(World).y
                 /\ slots'["weapon"] # item.id /\ slots'["armor"] # item.id
                 /\ (equipmentPowerBonus(World) + equipmentDefenseBonus(World))' =
                       equipmentPowerBonus(World) + equipmentDefenseBonus(World)
                          - BonusOf(World, item)]_vars

\* The last key event dropped the weapon the player had equipped: the drop
\* and the removal are in the log, the weapon lies under the player and the
\* weapon slot is empty.
C18_Witness ==
    /\ ActionSucceeded
    /\ \E m, n \in DOMAIN ev :
          ev[m].text = "You dropped the item." /\ ev[n].text = "You remove the item."
    /\ slots["weapon"] = 0
    /\ \E i \in Indices(entities) :
          /\ entities[i].equippable = "weapon"
          /\ entities[i].x = Player(World).x /\ entities[i].y = Player(World).y

\* C19: Equip(item) on an item that is not equipped puts it in the slot of
\* its equipment category, and the previous occupant of that slot is then in
\* no slot; Equip(item) on the item in its slot empties the slot; the other
\* slot is never changed.
C19_EquipTogglesMatchingSlot ==
    [][LET \* The slot matching an item's equipment category, and the other slot.
           SlotOf(item) == IF item.equippable = "weapon" THEN "weapon" ELSE "armor"
           OtherSlot(slot) == IF slot = "weapon" THEN "armor" ELSE "weapon"
       IN \A k \in keys :
             (/\ SelectsItem("UseInventory", k)
              /\ SelectedItem(k).equippable # "none"
              /\ GameScreenUpdate(k)) =>
                 LET item == SelectedItem(k)
                     slot == SlotOf(item)
                     previous == slots[slot]
                 IN /\ ActionSucceeded'
                    /\ previous # item.id =>
                          /\ slots'[slot] = item.id
                          /\ previous # 0 => \A t \in DOMAIN slots : slots'[t] # previous
                    /\ previous = item.id => slots'[slot] = 0
                    /\ slots'[OtherSlot(slot)] = slots[OtherSlot(slot)]]_vars

\* The last key event equipped a weapon in place of another one: both the
\* removal and the equipping are in the log, and the armor slot still holds
\* the armor.
C19_Witness ==
    /\ ActionSucceeded
    /\ \E m, n \in DOMAIN ev :
          ev[m].text = "You remove the item." /\ ev[n].text = "You equip the item."
    /\ slots["weapon"] # 0
    /\ \E j \in Indices(inv) : inv[j].id = slots["weapon"] /\ inv[j].name = "Sword"

\* C20: TakeStairs fails with an ImpossibleException and changes nothing
\* unless the actor's position equals the map's downstairsLocation; when it
\* succeeds the floor number grows by exactly 1 and the map is replaced by a
\* newly generated one, on which no tile is seen or visible until updateFov
\* recomputes the visibility from the player's position.
C20_StairsOnlyOnDownstairs ==
    [][(GameKeyTaken /\ GameScreenUpdate(">")) =>
          /\ ActionFailed' <=> <<Player(World).x, Player(World).y>> # downstairs
          /\ ActionFailed' =>
                /\ entities' = entities /\ inv' = inv /\ slots' = slots
                /\ walls' = walls /\ stairsTile' = stairsTile /\ downstairs' = downstairs
                /\ visible' = visible /\ seen' = seen
                /\ floor' = floor /\ nextId' = nextId /\ handler' = handler
          /\ ActionSucceeded' =>
                /\ floor' = floor + 1
                /\ \A w1 \in generateFloor(World) : w1.seen = {} /\ w1.visible = {}
                /\ \E f \in Floors :
                      /\ walls' = Walls /\ stairsTile' = f.stairs /\ downstairs' = f.stairs
                      /\ entities' = <<[Player(World) EXCEPT !.x = f.start[1],
                                                             !.y = f.start[2]]>>
                                        \o Spawned(f.spawns, nextId)
                      /\ visible' = Lit([walls |-> Walls], f.start)
                      /\ seen' = visible']_vars

\* The last key event took the player down the stairs: the descent is in the
\* log, the game is on the second floor and exactly the tiles lit from the
\* player's tile have been seen.
C20_Witness ==
    /\ ActionSucceeded
    /\ \E m \in DOMAIN ev : ev[m].text = "You descend the staircase."
    /\ floor = 2
    /\ seen = visible /\ seen # {} /\ seen # Pos

\* C21: a melee attack on the actor at the destination lowers the target's
\* hp by exactly max(0, attacker's power - target's defense), both with the
\* bonuses of the equipped items, before the clamp at 0; an attack whose
\* power does not exceed the defense leaves the target's hp unchanged.
C21_MeleeDamageIsPowerMinusDefense ==
    /\ [](\* Bump into an actor by any living actor of the map, applied to
          \* the current state; only the player wears equipment.
          screen = "Game" =>
              \A i \in ActorIndices(World) : \A n \in Indices(directions) :
                  LET e == entities[i]
                      t == getActorAtLocation(World, e.x + directions[n][1],
                                              e.y + directions[n][2])
                      worn == {j \in Indices(inv) :
                                  inv[j].id \in {slots["weapon"], slots["armor"]}}
                      Bonus(a, field) ==
                          IF a.id # PlayerId THEN 0
                          ELSE IF \E j \in worn : inv[j][field] > 0
                          THEN inv[CHOOSE j \in worn : inv[j][field] > 0][field]
                          ELSE 0
                      P == e.basePower + Bonus(e, "powerBonus")
                      D == entities[t].baseDefense + Bonus(entities[t], "defenseBonus")
                      r == MeleeAction(World, e.id, directions[n][1], directions[n][2])
                  IN t # 0 =>
                        /\ r.exc = "none"
                        /\ r.w.entities[t].hp = Max(0, entities[t].hp - Max(0, P - D))
                        /\ P <= D => r.w.entities = entities)
    /\ [][\A k \in keys \cap DOMAIN MOVE_KEYS :
             LET t == getActorAtLocation(World, Player(World).x + MOVE_KEYS[k][1],
                                         Player(World).y + MOVE_KEYS[k][2])
                 weapon == {j \in Indices(inv) : inv[j].id = slots["weapon"]}
                 P == Player(World).basePower
                         + (IF weapon = {} THEN 0
                            ELSE inv[CHOOSE j \in weapon : TRUE].powerBonus)
             IN (GameKeyTaken /\ t # 0 /\ GameScreenUpdate(k)) =>
                   /\ ActionSucceeded'
                   /\ entities'[t].hp =
                         Max(0, entities[t].hp - Max(0, P - entities[t].baseDefense))]_vars

\* In the last key event an Orc attacked the player, who wears the Chain
\* Mail, and did no damage: the player's hp is what it was before the event.
C21_Witness ==
    /\ screen = "Game"
    /\ \E m \in DOMAIN ev : ev[m].text = "attacks but does no damage."
    /\ \E j \in Indices(inv) : inv[j].id = slots["armor"] /\ inv[j].defenseBonus = 3
    /\ Player(World).hp = hpBefore /\ hpBefore < Player(World).maxHp

\* C22: heal(amount) with amount > 0 returns 0 and leaves hp unchanged when
\* hp = maxHp; otherwise it sets hp to min(maxHp, hp + amount) and returns
\* exactly the new hp minus the old hp.
C22_HealReturnsDeltaApplied ==
    /\ [](\* heal(amount) by any fighter of the map, applied to the current state
          screen = "Game" =>
              \A i \in Fighters : \A amount \in 1 .. HealingAmount :
                  LET e == entities[i]
                      returned == healAmount(e, amount)
                      after == heal(World, e.id, amount)
                  IN /\ e.hp = e.maxHp => returned = 0 /\ after = World
                     /\ e.hp # e.maxHp =>
                           /\ after.entities[i].hp = Min(e.maxHp, e.hp + amount)
                           /\ returned = after.entities[i].hp - e.hp)
    /\ [][\A k \in keys :
             (/\ SelectsItem("UseInventory", k)
              /\ SelectedItem(k).consumable = "healing"
              /\ GameScreenUpdate(k)) =>
                 LET hp == Player(World).hp
                     maxHp == Player(World).maxHp
                 IN /\ ActionFailed' <=> hp = maxHp
                    /\ ActionFailed' => entities' = entities /\ inv' = inv
                    /\ ActionSucceeded' =>
                          /\ ev'[1].text = "You consume the item, and recover HP!"
                          /\ ev'[1].n = Min(maxHp, hp + HealingAmount) - hp
                          /\ LivingEnemies' = {} =>
                                Player(World)'.hp = Min(maxHp, hp + HealingAmount)]_vars

\* The last key event was heal(4) at hp = 28 with maxHp = 30: the potion
\* restored 2.
C22_Witness ==
    /\ ActionSucceeded /\ ev # <<>>
    /\ ev[1].text = "You consume the item, and recover HP!" /\ ev[1].n = 2
    /\ hpBefore = 28 /\ Player(World).maxHp = 30 /\ HealingAmount = 4

\* C23: experienceToNextLevel equals levelUpBase + currentLevel *
\* levelUpFactor, and each level-up attribute increase subtracts exactly the
\* experienceToNextLevel of before the increase from currentXp and raises
\* currentLevel by exactly 1 (levelUpBase = 0, levelUpFactor = 200,
\* currentLevel = 1, currentXp = 250 ends at currentXp = 50, currentLevel = 2).
C23_LevelUpSpendsExperienceToNextLevel ==
    /\ [](\* The getter and increaseLevel on the player's Level component and
          \* on the same component with other bases, levels and experience.
          screen = "Game" =>
              \A base \in {0, Player(World).levelUpBase} :
              \A level \in {1, Player(World).currentLevel} :
              \A xp \in {250, Player(World).currentXp} :
                  LET e == [Player(World) EXCEPT !.levelUpBase = base,
                                                 !.currentLevel = level,
                                                 !.currentXp = xp]
                      needed == base + level * e.levelUpFactor
                  IN /\ experienceToNextLevel(e) = needed
                     /\ increaseLevel(e) = [e EXCEPT !.currentXp = xp - needed,
                                                      !.currentLevel = level + 1]
                     /\ (base = 0 /\ level = 1 /\ xp = 250 /\ e.levelUpFactor = 200) =>
                           /\ increaseLevel(e).currentXp = 50
                           /\ increaseLevel(e).currentLevel = 2)
    /\ [][\A k \in keys \cap {"a", "b", "c"} :
             (screen = "Game" /\ handler.state = "LevelUp" /\ GameScreenUpdate(k)) =>
                 LET p == Player(World)
                     needed == p.levelUpBase + p.currentLevel * p.levelUpFactor
                 IN /\ Player(World)'.currentXp = p.currentXp - needed
                    /\ Player(World)'.currentLevel = p.currentLevel + 1
                    /\ Player(World)'.maxHp + Player(World)'.basePower
                          + Player(World)'.baseDefense
                          > p.maxHp + p.basePower + p.baseDefense]_vars

\* The last key event chose an attribute in the level-up menu: the player
\* is on level 2 and keeps the experience beyond the 400 points of level 1.
C23_Witness ==
    /\ screen = "Game" /\ handler.state = "Game" /\ ev # <<>>
    /\ ev[1].text \in {"Your health improves!", "You feel stronger!",
                       "Your movements are getting swifter!"}
    /\ Player(World).currentLevel = 2
    /\ Player(World).currentXp >= 0 /\ Player(World).currentXp < 35

\* C24: in every reachable state every visible tile is seen, and a tile
\* that is seen stays seen through every later recomputation of the
\* visibility on the same map.
C24_VisibleIsSeenAndSeenStays ==
    /\ [](visible \subseteq seen)
    /\ [][(screen = "Game" /\ floor' = floor) => seen \subseteq seen']_vars

\* The player has walked on: some tile seen earlier is not visible any more.
C24_Witness ==
    /\ screen = "Game" /\ ActionSucceeded
    /\ visible # {} /\ visible \subseteq seen /\ seen # visible

\* C25: for every game state saved with 's', serialising it, deserialising
\* the result and serialising again yields the first serialisation.
C25_SaveLoadSaveIsIdentity ==
    [][(screen = "Game" /\ GameScreenUpdate("s")) =>
          /\ storage' = toObject(World)
          /\ load(storage').exc = "none"
          /\ toObject(load(storage').w) = storage']_vars

\* C26: for every game state saved with 's', loading the save reproduces the
\* player's hp (for every hp from 0 to maxHp), the inventory's item types in
\* order, the floor number and every living actor's AI with its confusion
\* turns.
C26_LoadReproducesSavedGame ==
    [][(screen = "Game" /\ GameScreenUpdate("s")) =>
          LET r == load(storage')
              Living(w) == SelectSeq(w.entities,
                                     LAMBDA e : e.isActor /\ e.id # PlayerId /\ e.ai # <<>>)
              Ais(w) == [k \in Indices(Living(w)) |->
                            <<Living(w)[k].name, Living(w)[k].x, Living(w)[k].y,
                              Living(w)[k].ai[1].type, Living(w)[k].ai[1].turnsRemaining>>]
          IN /\ r.exc = "none"
             /\ Player(r.w).hp = Player(World).hp
             /\ [k \in Indices(r.w.inv) |-> r.w.inv[k].name]
                   = [k \in Indices(inv) |-> inv[k].name]
             /\ r.w.floor = floor
             /\ Ais(r.w) = Ais(World)]_vars

\* C27: choosing continue on the main menu when the save is missing, is not
\* valid JSON or holds no player record shows the failed-to-load popup and
\* leaves the user on the main menu: no game starts.
C27_ContinueWithoutUsableSaveShowsPopup ==
    [][(/\ screen = "MainMenu" /\ ~showPopup
        /\ \/ storage = NoSave
           \/ storage = InvalidJson
           \/ /\ "entities" \in DOMAIN storage
              /\ \A i \in Indices(storage.entities) :
                    storage.entities[i].name # <<"Player", 0>>
        /\ MainMenuUpdate("c")) =>
          showPopup' /\ screen' = "MainMenu"]_vars

(***************************************************************************)
(* Properties of the dungeon generator, under GenSpec.                     *)
(***************************************************************************)

\* C28: no two rooms the generator has accepted have overlapping
\* rectangles (the tiles addRoom writes for them), whatever their widths
\* and heights.
C28_AcceptedRoomsDoNotOverlap ==
    LET Tiles(r) == (r.x .. r.x + r.width - 1) \X (r.y .. r.y + r.height - 1)
    IN \A i, j \in Indices(rooms) : i < j => Tiles(rooms[i]) \cap Tiles(rooms[j]) = {}

\* C29: in every generated dungeon the centre of every accepted room is
\* reached from the centre of the first room by steps to orthogonally
\* adjacent walkable tiles.
C29_EveryRoomCentreReachable ==
    pc = "done" =>
        LET Steps(p) == {<<p[1] + 1, p[2]>>, <<p[1] - 1, p[2]>>,
                         <<p[1], p[2] + 1>>, <<p[1], p[2] - 1>>}
            Open == ((0 .. mapWidth - 1) \X (0 .. mapHeight - 1)) \ walls
            RECURSIVE Reach(_, _)
            Reach(done, frontier) ==
                IF frontier = {} THEN done
                ELSE Reach(done \cup frontier,
                           ((UNION {Steps(p) : p \in frontier}) \cap Open)
                               \ (done \cup frontier))
        IN \A i \in Indices(rooms) : center(rooms[i]) \in Reach({}, {center(rooms[1])})

\* Three rooms were accepted, the tunnel between the first two had to turn,
\* and generation is over.
C29_Witness ==
    /\ pc = "done" /\ Len(rooms) = 3
    /\ center(rooms[1])[1] # center(rooms[2])[1]
    /\ center(rooms[1])[2] # center(rooms[2])[2]
    /\ center(rooms[2]) \notin walls /\ center(rooms[3]) \notin walls

C31_AcceptedRoomsInBounds ==
    \A i \in Indices(rooms) :
        /\ 0 <= rooms[i].x /\ rooms[i].x + rooms[i].width - 1 < mapWidth
        /\ 0 <= rooms[i].y /\ rooms[i].y + rooms[i].height - 1 < mapHeight

\* Generation is over and an accepted room lies as far right and as far
\* down as the generator can put a room of its size.
C31_Witness ==
    /\ pc = "done"
    /\ \E i \in Indices(rooms) :
          /\ rooms[i].x = mapWidth - rooms[i].width - 1
          /\ rooms[i].y = mapHeight - rooms[i].height - 1

\* C32 as stated: for any arguments (maxRooms >= 1, minSize <= maxSize) the
\* call of generateDungeon returns, with at least one room.
C32_AnyArgumentsReturnARoom == <>(pc = "done" /\ Len(rooms) >= 1)

\* C32: for any mapWidth, any mapHeight >= maxSize, maxRooms >= 1 and
\* minSize <= maxSize, dungeon generation terminates and yields at least one
\* room: the room loop ends after maxRooms passes, every corridor walk
\* between consecutive rooms yields finitely many tiles (one for each step
\* the two centres are apart, and the tile of the turn when the first axis
\* needs no step) and ends on the centre of the second room, and the
\* function returns.  With a mapHeight below maxSize a room can reach past
\* the last row of the map and the call can end in a TypeError instead, and
\* with a mapHeight below minSize it always does, in the first pass.
C32_GenerationTerminatesWithARoom ==
    /\ args.mapHeight >= args.maxSize => <>(pc = "done" /\ Len(rooms) >= 1)
    /\ args.mapHeight < args.minSize => <>(pc = "threw" /\ count = 0)
    /\ <>(pc \in {"done", "threw"})
    /\ [](pc = "threw" => args.mapHeight < args.maxSize)
    /\ [](count <= args.maxRooms /\ index <= Max(0, Len(rooms) - 1))
    /\ [](pc \in {"corridors", "done"} => (count = args.maxRooms /\ Len(rooms) >= 1))
    /\ [](\A i \in Indices(rooms), horizontal \in BOOLEAN :
             i < Len(rooms) =>
                LET a == center(rooms[i])
                    b == center(rooms[i + 1])
                    tiles == connectRooms(rooms[i], rooms[i + 1], horizontal)
                    steps == Abs(b[1] - a[1]) + Abs(b[2] - a[2])
                IN /\ Cardinality(tiles) \in {steps, steps + 1}
                   /\ a # b => b \in tiles)

\* The function has returned after two passes of the room loop accepted
\* their rooms and a corridor was dug between them.
C32_Witness ==
    /\ pc = "done" /\ args.mapHeight >= args.maxSize
    /\ count = args.maxRooms /\ Len(rooms) = 2 /\ index = 1
    /\ center(rooms[1]) # center(rooms[2])
    /\ stairsTile = center(rooms[2])

\* C33: a key event handled while the message-log view is open (scrolling,
\* Home, End, or the key that closes it) lets no enemy act and changes
\* neither an entity nor the map.
C33_LogViewKeysDoNotAdvanceGame ==
    [][(screen = "Game" /\ handler.state = "Log")
          => (EnemySteps' = {} /\ GameState' = GameState)]_vars

\* C34: in the dungeon generateDungeon returns no two movement-blocking
\* entities (the player and the monsters) are on the same tile.
C34_NoTwoBlockersOnATile ==
    pc = "done" =>
        \A i, j \in Indices(entities) :
            (i < j /\ entities[i].blocksMovement /\ entities[j].blocksMovement)
                => <<entities[i].x, entities[i].y>> # <<entities[j].x, entities[j].y>>

\* C40: in the dungeon generateDungeon returns every monster and item that
\* placeEntities spawned lies strictly inside an accepted room (not on the
\* one-tile wall border of the room) and on a walkable tile.
C40_SpawnsInsideRoomsOnWalkableTiles ==
    pc = "done" =>
        \A k \in Indices(entities) :
            entities[k].id # PlayerId =>
                /\ \E i \in Indices(rooms) :
                      /\ rooms[i].x < entities[k].x
                      /\ entities[k].x < rooms[i].x + rooms[i].width - 1
                      /\ rooms[i].y < entities[k].y
                      /\ entities[k].y < rooms[i].y + rooms[i].height - 1
                /\ <<entities[k].x, entities[k].y>> \notin walls

\* C35: in the game no item is both in the map's entities and in the
\* inventory's items, the parent of every entity of the map is the map and
\* the parent of every item of the inventory is the inventory.
C35_ItemOnMapOrInInventory ==
    screen = "Game" =>
        /\ \A i \in Indices(entities), k \in Indices(inv) : entities[i].id # inv[k].id
        /\ \A i \in Indices(entities) : entities[i].parent = "map"
        /\ \A k \in Indices(inv) : inv[k].parent = "inventory"

\* The last key event dropped an item: it lies on the player's tile, and
\* other items are still in the inventory.
C35_Witness ==
    /\ screen = "Game" /\ inv # <<>>
    /\ \E m \in Indices(ev) : ev[m].text = "You dropped the item."
    /\ \E i \in Indices(entities) :
          /\ ~entities[i].isActor /\ entities[i].parent = "map"
          /\ entities[i].x = Player(World).x /\ entities[i].y = Player(World).y

\* C36: while the player's currentXp exceeds experienceToNextLevel, a key
\* event performs no movement, attack, pickup, item or stairs action.  The
\* game handler hands the key to the level-up handler and does nothing
\* else, the level-up handler performs no action and gives way to the game
\* handler only with a choice that raises the level (and the game handler
\* asks again when the experience is still above the next threshold), and a
\* log view that is open at that moment only scrolls or closes: the player
\* stays where it is, with its inventory, on its floor.
C36_NoGameActionWhileLevelUpPending ==
    [][(/\ screen = "Game"
        /\ Player(World).currentXp > experienceToNextLevel(Player(World))
        /\ \E k \in keys \ {"s"} : GameScreenUpdate(k))
          => /\ handler.state # "Log" => acts' = <<>>
             /\ handler.state \in {"Game", "LevelUp", "Log"}
             /\ (handler.state = "Game" /\ Player(World).hp > 0)
                   => handler'.state = "LevelUp"
             /\ handler.state = "LevelUp" =>
                   \/ handler' = handler /\ entities' = entities
                   \/ /\ handler'.state = "Game"
                      /\ entities'[1].currentLevel = entities[1].currentLevel + 1
                      /\ entities'[1].currentXp =
                             entities[1].currentXp - experienceToNextLevel(entities[1])
             /\ handler.state = "Log" =>
                   /\ entities'[1].x = entities[1].x /\ entities'[1].y = entities[1].y
                   /\ inv' = inv /\ floor' = floor]_vars

\* A kill has put the player's experience over the threshold and the next
\* key went to the game handler: no action was performed and the level-up
\* handler is waiting for the choice.
C36_Witness ==
    /\ screen = "Game" /\ handler.state = "LevelUp" /\ acts = <<>>
    /\ Player(World).hp > 0
    /\ Player(World).currentXp > experienceToNextLevel(Player(World))
    /\ \E i \in Indices(entities) : entities[i].isActor /\ entities[i].ai = <<>>
                                    /\ entities[i].id # PlayerId

\* C37: in the game each of the player's two equipment slots (weapon and
\* armor) is empty or holds one item, and that item is in the player's
\* inventory.
C37_EquippedItemsAreCarried ==
    screen = "Game" =>
        /\ DOMAIN slots = {"weapon", "armor"}
        /\ \A slot \in DOMAIN slots :
              slots[slot] # 0 =>
                  Cardinality({j \in Indices(inv) : inv[j].id = slots[slot]}) = 1
        /\ slots["weapon"] # 0 => slots["weapon"] # slots["armor"]

\* The last key event equipped an item and both slots are occupied, by two
\* items of the inventory.
C37_Witness ==
    /\ ActionSucceeded
    /\ \E m \in DOMAIN ev : ev[m].text = "You equip the item."
    /\ \E j, k \in Indices(inv) :
          /\ j # k /\ inv[j].id = slots["weapon"] /\ inv[k].id = slots["armor"]
          /\ inv[j].equippable = "weapon" /\ inv[k].equippable = "armor"

\* C38: in every world the game reaches, the turn of a hostile enemy whose
\* tile is visible and whose Chebyshev distance to the player is at most 1
\* is a melee attack on the player (an attack message from the enemy to the
\* player, the player's hp not higher than before) that leaves the enemy on
\* its tile; the turn of a hostile enemy whose tile is not visible and
\* that has no stored path changes no entity and logs nothing.
C38_HostileEnemyAttacksOrWaits ==
    screen = "Game" =>
        \A i \in {h \in LivingEnemies : entities[h].ai[1].type = "hostile"} :
            LET e == entities[i]
                distance == Max(Abs(Player(World).x - e.x), Abs(Player(World).y - e.y))
                isVisible == <<e.x, e.y>> \in visible
            IN \A r \in HostileEnemyPerform(World, e.id) :
                  /\ (isVisible /\ distance <= 1) =>
                        /\ r.exc = "none"
                        /\ Ent(r.w, e.id).x = e.x /\ Ent(r.w, e.id).y = e.y
                        /\ Len(r.w.ev) > Len(ev)
                        /\ r.w.ev[Len(ev) + 1].who = NameOf(e)
                        /\ r.w.ev[Len(ev) + 1].whom = NameOf(Player(World))
                        /\ r.w.ev[Len(ev) + 1].text \in {"attacks for hit points.",
                                                        "attacks but does no damage."}
                        /\ Player(r.w).hp <= Player(World).hp
                  /\ (~isVisible /\ e.ai[1].path = <<>>) =>
                        /\ r.exc = "none"
                        /\ r.w.entities = entities
                        /\ r.w.ev = ev

\* A hostile enemy next to the player on a visible tile has attacked in the
\* last key event, and another hostile enemy stands on a tile that is not
\* visible, with no path stored.
C38_Witness ==
    /\ screen = "Game" /\ EnemySteps # {}
    /\ Player(World).hp < hpBefore
    /\ \E i \in {h \in LivingEnemies : entities[h].ai[1].type = "hostile"} :
          /\ <<entities[i].x, entities[i].y>> \in visible
          /\ Max(Abs(Player(World).x - entities[i].x),
                 Abs(Player(World).y - entities[i].y)) <= 1
    /\ \E i \in {h \in LivingEnemies : entities[h].ai[1].type = "hostile"} :
          /\ <<entities[i].x, entities[i].y>> \notin visible
          /\ entities[i].ai[1].path = <<>>


====
